---------------------------- MODULE Spec2Model ----------------------------
(***************************************************************************)
(* A model of IsoCard (src/src/isocard.ts): the object registry, the       *)
(* physics synchronisation engine, the gravity model, the frame tick and   *)
(* the transform snapshot store.                                           *)
(*                                                                         *)
(* Conventions of the encoding                                             *)
(*  - an optional JavaScript property is a sequence of length <= 1:        *)
(*    <<>> when the property is absent (undefined), <<v>> when it is v;    *)
(*  - ids are strings: a caller-supplied name, "undefined" for the         *)
(*    JavaScript value undefined, and ToString(n) for a numeric id n       *)
(*    (names are never digit strings nor "undefined" nor "null");          *)
(*  - a THREE.Object3D is a record of the heap `three`, a Jolt body a      *)
(*    record of the heap `bodies`; 0 is the null reference; a record that  *)
(*    nothing can reach any more is returned to the free list;             *)
(*  - vectors are abstracted to one integer coordinate, angles are kept    *)
(*    in degrees, opacities in percent;                                    *)
(*  - every method is a function from a state record to a state record     *)
(*    (do_<method>), so that methods that call methods compose; the action *)
(*    of the same name as the method commits the result.                   *)
(***************************************************************************)
EXTENDS Integers, Sequences, FiniteSets, TLC

\* ------------------------------------------------------------------ bounds
MaxObjects == 2
MaxHandles == 3
MaxBodies == 3
MaxInFlight == 1
MaxTime == 20000
MaxOverlap == 2

\* ------------------------------------------------------- program constants
LAYER_NON_MOVING == 0
LAYER_MOVING == 1
DefaultLayerOpacity == 50
FullOpacity == 100
DefaultGravityStrength == 1000
EarthGravity == -981
MaxDeltaTime == 33333
SubStepThreshold == 18181

\* ---------------------------------------------------------------- helpers
None == <<>>
Some(v) == <<v>>
IsSome(o) == Len(o) > 0
Undefined == "undefined"
Null == "null"

Min2(a, b) == IF a <= b THEN a ELSE b

RECURSIVE IndexWhere(_, _, _)
\* Array.prototype.findIndex over the ids of a sequence of entries (0: not found)
IndexWhere(seq, id, i) ==
  IF i > Len(seq) THEN 0
  ELSE IF seq[i].id = id THEN i
  ELSE IndexWhere(seq, id, i + 1)

findIndex(seq, id) == IndexWhere(seq, id, 1)

RemoveAt(seq, i) == SubSeq(seq, 1, i - 1) \o SubSeq(seq, i + 1, Len(seq))

SeqRange(seq) == {seq[i] : i \in 1 .. Len(seq)}

RECURSIVE IndexOfFrom(_, _, _)
IndexOfFrom(seq, x, i) ==
  IF i > Len(seq) THEN 0
  ELSE IF seq[i] = x THEN i
  ELSE IndexOfFrom(seq, x, i + 1)

\* Array.prototype.indexOf (0: not found)
indexOf(seq, x) == IndexOfFrom(seq, x, 1)

\* ------------------------------------------------------------------ state
VARIABLES
  objects,          \* this.objects: sequence of [id, threeObj, config]
  three,            \* heap of render handles (THREE objects)
  scene,            \* children of this.scene that are render handles
  floorMeshes,      \* the scene children that createFloor made
  layers,           \* this.layers: name -> [visible, opacity]
  selectedHelper,   \* this.selectedHelper: <<>> or <<handle it boxes>>
  attractors,       \* this.attractors
  jolt,             \* this.jolt: is the physics module loaded
  jInterface,       \* this.jInterface: 0 (null) or the id of the world
  bodies,           \* heap of physics bodies
  dynamicObjects,   \* this.dynamicObjects: sequence of handles
  isPhysicsRunning, \* this.isPhysicsRunning
  time,             \* this.time (microseconds)
  savedTransforms,  \* this.savedTransforms: sequence of [id, position, rotation, scale]
  gravity,          \* this.sceneConfig.gravity
  gravityType,      \* this.gravityType
  gravityStrength,  \* this.gravityStrength
  nativeGravity,    \* the gravity vector of the live physics system
  pending,          \* setupJOLT calls that are awaiting the module load
  isServer,         \* this.isServer: constructed with opts.isServer
  OrbitControls,    \* this.OrbitControls: was an orbit controls class provided
  camera,           \* sceneConfig.camera, this.camera, this.controls, this.cameraLocked
  frame,            \* the engine, renderer and dispose calls of the last call, in order
  last              \* the last call: [op, id, ret]

vars == <<objects, three, scene, floorMeshes, layers, selectedHelper, attractors,
          jolt, jInterface, bodies, dynamicObjects, isPhysicsRunning, time,
          savedTransforms, gravity, gravityType, gravityStrength, nativeGravity,
          pending, isServer, OrbitControls, camera, frame, last>>

\* this.physicsSystem and this.bodyInterface are assigned together with
\* this.jInterface in setupJOLT and cleared together with it in resetPhysics
physicsSystem == jInterface
bodyInterface == jInterface

Handles == 1 .. MaxHandles
BodyIds == 1 .. MaxBodies

FreeHandle ==
  [kind |-> "free", position |-> 0, rotation |-> 0, scale |-> 1, visible |-> TRUE,
   opacity |-> FullOpacity, transparent |-> FALSE,
   geoDisposed |-> FALSE, matDisposed |-> FALSE,
   geometry |-> None, material |-> None,
   layer |-> None, enabled |-> None,
   body |-> 0, isStatic |-> None, isDynamic |-> None, isKinematic |-> None,
   physicsConfig |-> None]

FreeBody ==
  [motionType |-> "free", layer |-> 0, world |-> 0, added |-> FALSE,
   position |-> 0, rotation |-> 0, moving |-> FALSE, force |-> 0]

\* the state as one record, plus the return value of the call in progress
State ==
  [objects |-> objects, three |-> three, scene |-> scene, floorMeshes |-> floorMeshes,
   layers |-> layers, selectedHelper |-> selectedHelper, attractors |-> attractors,
   jolt |-> jolt, jInterface |-> jInterface, bodies |-> bodies,
   dynamicObjects |-> dynamicObjects, isPhysicsRunning |-> isPhysicsRunning,
   time |-> time, savedTransforms |-> savedTransforms,
   gravity |-> gravity, gravityType |-> gravityType,
   gravityStrength |-> gravityStrength, nativeGravity |-> nativeGravity,
   pending |-> pending, isServer |-> isServer, OrbitControls |-> OrbitControls,
   camera |-> camera, frame |-> <<>>, ret |-> Undefined]

\* handles that the program can still reach
ReachableHandles(s) ==
  {s.objects[i].threeObj : i \in 1 .. Len(s.objects)}
    \cup SeqRange(s.dynamicObjects) \cup s.scene \cup SeqRange(s.selectedHelper)

\* bodies that the live world holds
LiveBodies(s) ==
  {b \in BodyIds : s.bodies[b].motionType /= "free" /\ s.bodies[b].added
                     /\ s.jInterface /= 0 /\ s.bodies[b].world = s.jInterface}

RECURSIVE SortedSeq(_)
\* the elements of a set of integers in ascending order
SortedSeq(S) ==
  IF S = {} THEN <<>>
  ELSE LET m == CHOOSE x \in S : \A y \in S : x <= y IN <<m>> \o SortedSeq(S \ {m})

\* Heap addresses are not observable: after every call the reachable handles
\* are renumbered in the order registry entries, dynamicObjects entries, other
\* scene children, and the reachable bodies in the order of the handles that
\* hold them followed by the bodies only the live world holds; what nothing
\* reaches is returned to the free list.
Collect(s) ==
  LET objHs == [i \in 1 .. Len(s.objects) |-> s.objects[i].threeObj]
      dynHs == SelectSeq(s.dynamicObjects, LAMBDA h : h \notin SeqRange(objHs))
      hOrder == objHs \o dynHs
                  \o SortedSeq(ReachableHandles(s) \ (SeqRange(objHs) \cup SeqRange(dynHs)))
      hNew(h) == indexOf(hOrder, h)
      held == SelectSeq([k \in 1 .. Len(hOrder) |-> s.three[hOrder[k]].body],
                        LAMBDA b : b /= 0)
      bOrder == held \o SortedSeq(LiveBodies(s) \ SeqRange(held))
      bNew(b) == IF b = 0 THEN 0 ELSE indexOf(bOrder, b)
  IN  [s EXCEPT
         !.three = [k \in Handles |->
                      IF k <= Len(hOrder)
                      THEN [s.three[hOrder[k]] EXCEPT !.body = bNew(@)]
                      ELSE FreeHandle],
         !.bodies = [k \in BodyIds |->
                       IF k <= Len(bOrder) THEN s.bodies[bOrder[k]] ELSE FreeBody],
         !.objects = [i \in 1 .. Len(s.objects) |->
                        [s.objects[i] EXCEPT !.threeObj = hNew(@)]],
         !.dynamicObjects = [i \in 1 .. Len(s.dynamicObjects) |-> hNew(s.dynamicObjects[i])],
         !.scene = {hNew(h) : h \in s.scene},
         !.floorMeshes = {hNew(h) : h \in s.floorMeshes},
         !.selectedHelper = [i \in 1 .. Len(s.selectedHelper) |-> hNew(s.selectedHelper[i])]]

FreeHandles(s) == {h \in Handles : s.three[h].kind = "free"}
FreeBodies(s) == {b \in BodyIds : s.bodies[b].motionType = "free"}
NewHandle(s) == CHOOSE h \in FreeHandles(s) : \A g \in FreeHandles(s) : h <= g
NewBody(s) == CHOOSE b \in FreeBodies(s) : \A c \in FreeBodies(s) : b <= c

Commit(s, op, id) ==
  \E c \in {Collect(s)} :
  /\ objects' = c.objects
  /\ three' = c.three
  /\ scene' = c.scene
  /\ floorMeshes' = c.floorMeshes
  /\ layers' = c.layers
  /\ selectedHelper' = c.selectedHelper
  /\ attractors' = c.attractors
  /\ jolt' = c.jolt
  /\ jInterface' = c.jInterface
  /\ bodies' = c.bodies
  /\ dynamicObjects' = c.dynamicObjects
  /\ isPhysicsRunning' = c.isPhysicsRunning
  /\ time' = c.time
  /\ savedTransforms' = c.savedTransforms
  /\ gravity' = c.gravity
  /\ gravityType' = c.gravityType
  /\ gravityStrength' = c.gravityStrength
  /\ nativeGravity' = c.nativeGravity
  /\ pending' = c.pending
  /\ isServer' = c.isServer
  /\ OrbitControls' = c.OrbitControls
  /\ camera' = c.camera
  /\ frame' = c.frame
  /\ last' = [op |-> op, id |-> id, ret |-> c.ret]

\* --------------------------------------------------------------- configs
\* a scene descriptor: every property optional
BaseConfig ==
  [type |-> None, name |-> None, layer |-> None, enabled |-> None,
   lightType |-> None, helperType |-> None, shape |-> None, material |-> None,
   pos |-> None, euler |-> None, rot |-> None, scale |-> None, physics |-> None,
   gravity |-> None]

NoUpdates == BaseConfig

BasePhysics ==
  [motionType |-> None, friction |-> None, restitution |-> None, gravityStrength |-> None]
BaseGravity == [type |-> None, vector |-> None, strength |-> None]
BaseMaterial == [type |-> None, opacity |-> None, transparent |-> None]

\* the constructor's sceneConfig.camera; near is in tenths
DefaultCamera ==
  [position |-> 5, lookAt |-> 0, fov |-> 75, near |-> 1, far |-> 1000,
   locked |-> FALSE, orbitTarget |-> 0, orbitEnabled |-> TRUE]

\* the camera state the constructor builds: the stored config, the camera
\* (PerspectiveCamera(75, aspect, 0.1, 1000) at (5, 5, 5)), the controls
\* (target at the origin, enabled) and cameraLocked; camera and controls are
\* read only where they exist
NewCamera ==
  [config |-> DefaultCamera, position |-> 5, lookAt |-> 0, fov |-> 75, near |-> 1,
   far |-> 1000, target |-> 0, enabled |-> TRUE, cameraLocked |-> FALSE]

\* new IsoCard(container, deps, {isServer: server}), deps with or without an
\* orbit controls class
Construct(server, orbit) ==
  /\ objects = <<>>
  /\ three = [h \in Handles |-> FreeHandle]
  /\ scene = {}
  /\ floorMeshes = {}
  /\ layers = [l \in {"main"} |-> [visible |-> TRUE, opacity |-> FullOpacity]]
  /\ selectedHelper = None
  /\ attractors = <<>>
  /\ jolt = FALSE
  /\ jInterface = 0
  /\ bodies = [b \in BodyIds |-> FreeBody]
  /\ dynamicObjects = <<>>
  /\ isPhysicsRunning = FALSE
  /\ time = 0
  /\ savedTransforms = <<>>
  /\ gravity = [BaseGravity EXCEPT !.type = Some("uniform"), !.vector = Some(EarthGravity)]
  /\ gravityType = "uniform"
  /\ gravityStrength = DefaultGravityStrength
  /\ nativeGravity = None
  /\ pending = 0
  /\ isServer = server
  /\ OrbitControls = orbit
  /\ camera = NewCamera
  /\ frame = <<>>
  /\ last = [op |-> "constructor", id |-> Undefined, ret |-> Undefined]

\* a browser instance with orbit controls
Init == Construct(FALSE, TRUE)

\* any instance
InitAny == \E server, orbit \in BOOLEAN : Construct(server, orbit)


\* ------------------------------------------------- shape / material lookup
GeometryTypes ==
  {"box", "sphere", "plane", "cylinder", "cone", "torus", "circle", "ring",
   "dodecahedron", "icosahedron", "octahedron", "tetrahedron", "torusknot", "capsule"}

MaterialTypes ==
  {"basic", "lambert", "phong", "standard", "physical", "toon", "normal", "depth",
   "linebasic", "linedashed", "points", "sprite", "shadow"}

LightTypes == {"directional", "ambient", "point", "spot", "hemisphere"}
HelperTypes == {"grid", "axes"}

\* a createGeometry whose switch has no default branch: any shape type builds
createGeometry_anyShape(shape) == IsSome(shape)

\* createGeometry(shape): is a geometry returned (FALSE: null); shape is the
\* optional shape type, config.shape || {} having no type
createGeometry(shape) == IsSome(shape) /\ shape[1] \in GeometryTypes

\* createMaterialFromObj(materialObj): <<>> for null, else the new material
createMaterialFromObj(materialObj) ==
  LET type == IF IsSome(materialObj.type) THEN materialObj.type[1] ELSE "phong" IN
  IF type \in MaterialTypes
  THEN Some([opacity |-> IF IsSome(materialObj.opacity) THEN materialObj.opacity[1]
                         ELSE FullOpacity,
             transparent |-> IsSome(materialObj.transparent) /\ materialObj.transparent[1]])
  ELSE None

\* the type of the material built from config.material || {type: "phong"}
MaterialTypeOf(config) ==
  IF IsSome(config.material) /\ IsSome(config.material[1].type)
  THEN config.material[1].type[1] ELSE "phong"

\* the material addObject / replaceObject build for a mesh config
MeshMaterial(config) ==
  IF IsSome(config.material) THEN createMaterialFromObj(config.material[1])
  ELSE createMaterialFromObj([BaseMaterial EXCEPT !.type = Some("phong")])

\* material.opacity * layerOpacity, in percent
ScaleOpacity(opacity, layerOpacity) == (opacity * layerOpacity) \div FullOpacity

\* `${config.shape?.type || config.type || "object"} ${id}`
FallbackName(config, id) ==
  (IF IsSome(config.shape) THEN config.shape[1]
   ELSE IF IsSome(config.type) THEN config.type[1]
   ELSE "object") \o " " \o id

TypeOf(config) == IF IsSome(config.type) THEN config.type[1] ELSE "mesh"

\* rotations are angles about one axis, in milliradians
MilliPi == 3142

\* euler angles are in millidegrees
HalfTurn == 180000

\* config.euler.map((deg) => (deg * Math.PI) / 180), rounded to the nearest
\* milliradian
eulerRad(euler) == (2 * euler * MilliPi + HalfTurn) \div (2 * HalfTurn)

\* (rotation.x * 180) / Math.PI, rounded to the nearest millidegree
eulerDeg(rotation) == (2 * rotation * HalfTurn + MilliPi) \div (2 * MilliPi)

\* a rot array is [length, v]: with 3 components v is the angle in radians
\* (rotation.set), with 4 it is the unit quaternion of half-angle v
\* (quaternion.fromArray), which turns the object by 2 * v
RotationOfRot(rot) == IF rot.length = 4 THEN 2 * rot.v ELSE rot.v

\* the rotation addObject / replaceObject give a new mesh
MeshRotation(config) ==
  IF IsSome(config.euler) THEN eulerRad(config.euler[1])
  ELSE IF IsSome(config.rot) THEN RotationOfRot(config.rot[1])
  ELSE 0

\* the rotation addObject / replaceObject give a new group
GroupRotation(config) ==
  IF IsSome(config.euler) THEN eulerRad(config.euler[1]) ELSE 0

\* ------------------------------------------------------------ gravity model
MergeGravity(old, config) ==
  [type |-> IF IsSome(config.type) THEN config.type ELSE old.type,
   vector |-> IF IsSome(config.vector) THEN config.vector ELSE old.vector,
   strength |-> IF IsSome(config.strength) THEN config.strength ELSE old.strength]

do_setGravityConfig(s, config) ==
  LET g == MergeGravity(s.gravity, config)
      gt == IF IsSome(g.type) THEN g.type[1] ELSE "uniform"
      s1 == [s EXCEPT !.gravity = g, !.gravityType = gt]
  IN  IF s.jInterface = 0 THEN s1
      ELSE IF gt = "uniform"
      THEN [s1 EXCEPT !.nativeGravity =
                        Some(IF IsSome(g.vector) THEN g.vector[1] ELSE EarthGravity)]
      ELSE IF gt = "radial"
      THEN [s1 EXCEPT !.nativeGravity = Some(0),
                      !.gravityStrength =
                        IF IsSome(g.strength) /\ g.strength[1] /= 0 THEN g.strength[1]
                        ELSE DefaultGravityStrength]
      ELSE s1

\* ---------------------------------------------------------------- registry
WithLayer(ls, l, v) == [x \in DOMAIN ls \cup {l} |-> IF x = l THEN v ELSE ls[x]]
WithoutLayer(ls, l) == [x \in DOMAIN ls \ {l} |-> ls[x]]
NewLayer == [visible |-> TRUE, opacity |-> DefaultLayerOpacity]

\* selectObject(id)
do_selectObject(s, id) ==
  LET i == findIndex(s.objects, id) IN
  [s EXCEPT !.selectedHelper =
     IF i > 0 /\ s.three[s.objects[i].threeObj].kind = "mesh"
     THEN Some(s.objects[i].threeObj) ELSE None]

\* the render handle addObject builds for a light, helper, mesh or group
\* config (defaults applied, layer present); <<>> when the add is abandoned
addObject_build(s, c) ==
  LET ty == TypeOf(c)
      base == [FreeHandle EXCEPT !.kind = ty,
                                 !.position = IF IsSome(c.pos) THEN c.pos[1] ELSE 0]
  IN
  IF ty = "light" THEN
    IF IsSome(c.lightType) /\ c.lightType[1] \in LightTypes THEN Some(base) ELSE None
  ELSE IF ty = "helper" THEN
    IF IsSome(c.helperType) /\ c.helperType[1] \in HelperTypes THEN Some(base) ELSE None
  ELSE IF ty = "mesh" THEN
    IF ~createGeometry(c.shape) THEN None
    ELSE LET m == MeshMaterial(c) IN
      IF ~IsSome(m) THEN None
      ELSE LET layerOpacity == s.layers[c.layer[1]].opacity IN
        Some([base EXCEPT
          !.transparent = IF layerOpacity < FullOpacity THEN TRUE ELSE m[1].transparent,
          !.opacity = IF layerOpacity < FullOpacity
                      THEN ScaleOpacity(m[1].opacity, layerOpacity) ELSE m[1].opacity,
          !.geometry = c.shape,
          !.material = Some(MaterialTypeOf(c)),
          !.rotation = MeshRotation(c),
          !.scale = IF IsSome(c.scale) THEN c.scale[1] ELSE 1,
          !.visible = c.enabled[1] /\ s.layers[c.layer[1]].visible])
  ELSE IF ty = "group" THEN
    Some([base EXCEPT !.rotation = GroupRotation(c),
                      !.scale = IF IsSome(c.scale) THEN c.scale[1] ELSE 1])
  ELSE None

IsAttractorConfig(c) ==
  /\ IsSome(c.shape) /\ c.shape[1] = "sphere"
  /\ IsSome(c.physics)
  /\ IsSome(c.physics[1].motionType) /\ c.physics[1].motionType[1] = "static"
  /\ IsSome(c.physics[1].gravityStrength) /\ c.physics[1].gravityStrength[1] /= 0

\* addObject(config); ret is the returned id, or "null"
do_addObject(s, config) ==
  LET c1 == IF IsSome(config.enabled) THEN config ELSE [config EXCEPT !.enabled = Some(TRUE)]
      c  == IF IsSome(c1.layer) THEN c1 ELSE [c1 EXCEPT !.layer = Some("main")]
      s1 == IF c.layer[1] \in DOMAIN s.layers THEN s
            ELSE [s EXCEPT !.layers = WithLayer(s.layers, c.layer[1], NewLayer)]
  IN
  IF TypeOf(c) = "scene" THEN
    [(IF IsSome(c.gravity) THEN do_setGravityConfig(s1, c.gravity[1]) ELSE s1)
       EXCEPT !.ret = Null]
  ELSE
    LET built == addObject_build(s1, c) IN
    IF ~IsSome(built) THEN [s1 EXCEPT !.ret = Null]
    ELSE
      LET h  == NewHandle(s1)
          id == IF IsSome(c.name) THEN c.name[1] ELSE Undefined
          newConfig == IF IsSome(c.name) THEN c
                       ELSE [c EXCEPT !.name = Some(FallbackName(c, id))]
          obj == [built[1] EXCEPT !.layer = c.layer, !.enabled = c.enabled]
      IN [s1 EXCEPT
            !.attractors = IF TypeOf(c) = "mesh" /\ IsAttractorConfig(c)
                           THEN Append(@, [position |-> obj.position,
                                           strength |-> c.physics[1].gravityStrength[1]])
                           ELSE @,
            !.three = [@ EXCEPT ![h] = obj],
            !.objects = Append(@, [id |-> id, threeObj |-> h, config |-> newConfig]),
            !.scene = @ \cup {h},
            !.ret = id]

\* scene.remove + geometry.dispose + material.dispose of a handle
Dispose(obj) ==
  IF obj.kind \in {"mesh", "helper"}
  THEN [obj EXCEPT !.geoDisposed = TRUE, !.matDisposed = TRUE]
  ELSE obj

\* a removeObject that leaves the selection helper alone
do_removeObject_keepHighlight(s, id) ==
  LET index == findIndex(s.objects, id) IN
  IF index = 0 THEN s
  ELSE
    LET h == s.objects[index].threeObj IN
    [s EXCEPT
       !.scene = @ \ {h},
       !.three = [@ EXCEPT ![h] = Dispose(@)],
       !.objects = RemoveAt(@, index)]

\* removeObject(id); the selection helper is a child of the scene exactly
\* while this.selectedHelper holds it
do_removeObject(s, id) ==
  LET index == findIndex(s.objects, id) IN
  IF index = 0 THEN s
  ELSE
    LET h == s.objects[index].threeObj IN
    [s EXCEPT
       !.scene = @ \ {h},
       !.three = [@ EXCEPT ![h] = Dispose(@)],
       !.selectedHelper = IF s.selectedHelper = Some(h) THEN None ELSE @,
       !.objects = RemoveAt(@, index)]

\* the render handle replaceObject builds (the layer may be absent from the
\* layer table); <<>> when construction fails or the type is not handled
replaceObject_build(s, c) ==
  LET ty == TypeOf(c)
      base == [FreeHandle EXCEPT !.kind = ty,
                                 !.position = IF IsSome(c.pos) THEN c.pos[1] ELSE 0]
      hasLayer == c.layer[1] \in DOMAIN s.layers
  IN
  IF ty = "light" THEN
    IF IsSome(c.lightType) /\ c.lightType[1] \in LightTypes THEN Some(base) ELSE None
  ELSE IF ty = "helper" THEN
    IF IsSome(c.helperType) /\ c.helperType[1] \in HelperTypes THEN Some(base) ELSE None
  ELSE IF ty = "mesh" THEN
    IF ~createGeometry(c.shape) THEN None
    ELSE LET m == MeshMaterial(c) IN
      IF ~IsSome(m) THEN None
      ELSE LET scaled == hasLayer /\ s.layers[c.layer[1]].opacity < FullOpacity IN
        Some([base EXCEPT
          !.transparent = IF scaled THEN TRUE ELSE m[1].transparent,
          !.opacity = IF scaled
                      THEN ScaleOpacity(m[1].opacity, s.layers[c.layer[1]].opacity)
                      ELSE m[1].opacity,
          !.geometry = c.shape,
          !.material = Some(MaterialTypeOf(c)),
          !.rotation = MeshRotation(c),
          !.scale = IF IsSome(c.scale) THEN c.scale[1] ELSE 1,
          !.visible = c.enabled[1] /\ (~hasLayer \/ s.layers[c.layer[1]].visible)])
  ELSE IF ty = "group" THEN
    Some([base EXCEPT !.rotation = GroupRotation(c),
                      !.scale = IF IsSome(c.scale) THEN c.scale[1] ELSE 1])
  ELSE None

\* a failed replaceObject that puts the list back as it was
replaceObject_restore_original(objs, index) == objs

\* what replaceObject leaves in this.objects when the replacement cannot be
\* built: this.objects.slice(0, index) followed by tempObjects.slice(index),
\* tempObjects being the list the old entry was spliced out of
replaceObject_restore(objs, index) ==
  SubSeq(RemoveAt(objs, index), 1, index - 1)
    \o SubSeq(RemoveAt(objs, index), index, Len(objs) - 1)

\* a replaceObject that pushes the new entry behind all others
replaceObject_reinsert_last(objs, index, entry) ==
  Append(RemoveAt(objs, index), entry)

\* this.objects.push(entry) onto this.objects.slice(0, index), then
\* tempObjects.slice(index) behind it
replaceObject_reinsert(objs, index, entry) ==
  Append(SubSeq(RemoveAt(objs, index), 1, index - 1), entry)
    \o SubSeq(RemoveAt(objs, index), index, Len(objs) - 1)

\* replaceObject(id, newConfig); ret is "true" or "false"
do_replaceObject(s, id, newConfig) ==
  LET index == findIndex(s.objects, id) IN
  IF index = 0 THEN [s EXCEPT !.ret = "false"]
  ELSE
    LET old == s.objects[index].threeObj
        s1 == [s EXCEPT !.scene = @ \ {old},
                        !.three = [@ EXCEPT ![old] = Dispose(@)]]
        c1 == IF IsSome(newConfig.enabled) THEN newConfig
              ELSE [newConfig EXCEPT !.enabled = Some(TRUE)]
        c  == IF IsSome(c1.layer) THEN c1 ELSE [c1 EXCEPT !.layer = Some("main")]
        built == replaceObject_build(s1, c)
    IN
    IF ~IsSome(built)
    THEN [s1 EXCEPT !.objects = replaceObject_restore(s.objects, index),
                    !.ret = "false"]
    ELSE
      LET h == NewHandle(s1)
          obj == [built[1] EXCEPT !.layer = c.layer, !.enabled = c.enabled]
          cfg == IF IsSome(c.name) THEN c ELSE [c EXCEPT !.name = Some(FallbackName(c, id))]
          s2 == [s1 EXCEPT
                   !.three = [@ EXCEPT ![h] = obj],
                   !.objects = replaceObject_reinsert(
                                 @, index, [id |-> id, threeObj |-> h, config |-> cfg]),
                   !.scene = @ \cup {h}]
          s3 == IF IsSome(s2.selectedHelper) THEN do_selectObject(s2, id) ELSE s2
      IN [s3 EXCEPT !.ret = "true"]

\* an entry of frame: a call made to the engine, the renderer or a resource
Call(name) == [call |-> name, deltaTime |-> 0, numSteps |-> 0]

\* Object.assign(item.config, updates)
AssignConfig(config, updates) ==
  LET pick(a, b) == IF IsSome(b) THEN b ELSE a IN
  [type |-> pick(config.type, updates.type),
   name |-> pick(config.name, updates.name),
   layer |-> pick(config.layer, updates.layer),
   enabled |-> pick(config.enabled, updates.enabled),
   lightType |-> pick(config.lightType, updates.lightType),
   helperType |-> pick(config.helperType, updates.helperType),
   shape |-> pick(config.shape, updates.shape),
   material |-> pick(config.material, updates.material),
   pos |-> pick(config.pos, updates.pos),
   euler |-> pick(config.euler, updates.euler),
   rot |-> pick(config.rot, updates.rot),
   scale |-> pick(config.scale, updates.scale),
   physics |-> pick(config.physics, updates.physics),
   gravity |-> pick(config.gravity, updates.gravity)]

\* item.config.material?.opacity || 1
BaseMaterialOpacity(config) ==
  IF IsSome(config.material) /\ IsSome(config.material[1].opacity)
       /\ config.material[1].opacity[1] /= 0
  THEN config.material[1].opacity[1] ELSE FullOpacity

\* item.config.layer || "main"
LayerOf(config) == IF IsSome(config.layer) THEN config.layer[1] ELSE "main"

\* an updateObject that builds a new geometry on every update
RecreateGeo_always(updates) == TRUE

\* const recreateGeo = "shape" in updates
RecreateGeo(updates) == IsSome(updates.shape)

\* const recreateMat = "material" in updates
RecreateMat(updates) == IsSome(updates.material)

\* updateObject(id, updates); ret is "undefined", or "throw" when the call
\* raises (the state is then what the statements before the throw made it)
do_updateObject(s, id, updates) ==
  LET i == findIndex(s.objects, id) IN
  IF i = 0 THEN s
  ELSE
    LET h   == s.objects[i].threeObj
        cfg == AssignConfig(s.objects[i].config, updates)
        \* position, rotation, scale
        o1 == [s.three[h] EXCEPT
                 !.position = IF IsSome(updates.pos) THEN cfg.pos[1] ELSE @,
                 !.rotation = IF IsSome(updates.euler) THEN eulerRad(cfg.euler[1])
                              ELSE IF IsSome(updates.rot) THEN RotationOfRot(cfg.rot[1])
                              ELSE @,
                 !.scale = IF IsSome(updates.scale) THEN cfg.scale[1] ELSE @]
        sA == [s EXCEPT !.objects = [@ EXCEPT ![i].config = cfg]]
        \* layer change
        ls2 == IF IsSome(updates.layer) /\ updates.layer[1] \notin DOMAIN s.layers
               THEN WithLayer(s.layers, updates.layer[1], NewLayer) ELSE s.layers
        o2 == IF ~IsSome(updates.layer) THEN o1
              ELSE LET lo == ls2[updates.layer[1]].opacity
                       o21 == [o1 EXCEPT
                                 !.layer = updates.layer,
                                 !.visible = (cfg.enabled /= Some(FALSE))
                                               /\ ls2[updates.layer[1]].visible]
                   IN IF o1.kind /= "mesh" THEN o21
                      ELSE IF lo < FullOpacity
                      THEN [o21 EXCEPT !.transparent = TRUE,
                                       !.opacity = ScaleOpacity(BaseMaterialOpacity(cfg), lo)]
                      ELSE [o21 EXCEPT !.opacity = BaseMaterialOpacity(cfg)]
        sB == [sA EXCEPT !.layers = ls2]
        layerKnown == LayerOf(cfg) \in DOMAIN ls2
    IN
    IF IsSome(updates.enabled) /\ ~layerKnown
    THEN \* this.layers[layer].visible on an absent layer: TypeError
      [sB EXCEPT !.three = [@ EXCEPT ![h] = [o2 EXCEPT !.enabled = updates.enabled]],
                 !.ret = "throw"]
    ELSE
      LET o3 == IF IsSome(updates.enabled)
                THEN [o2 EXCEPT !.enabled = updates.enabled,
                                !.visible = updates.enabled[1] /\ ls2[LayerOf(cfg)].visible]
                ELSE o2
          rebuildGeo == RecreateGeo(updates) /\ o3.kind = "mesh" /\ createGeometry(cfg.shape)
          o4 == IF rebuildGeo
                THEN [o3 EXCEPT !.geoDisposed = FALSE, !.geometry = cfg.shape] ELSE o3
          sC == IF rebuildGeo THEN [sB EXCEPT !.frame = <<Call("geometry.dispose")>>] ELSE sB
          newMat == IF IsSome(cfg.material) THEN createMaterialFromObj(cfg.material[1])
                    ELSE createMaterialFromObj([BaseMaterial EXCEPT !.type = Some("phong")])
      IN
      IF RecreateMat(updates) /\ o4.kind = "mesh" /\ IsSome(newMat)
      THEN IF ~layerKnown
           THEN [sC EXCEPT !.three = [@ EXCEPT ![h] = o4], !.ret = "throw"]
           ELSE LET lo == ls2[LayerOf(cfg)].opacity IN
             [sC EXCEPT
                !.frame = @ \o <<Call("material.dispose")>>,
                !.three = [@ EXCEPT ![h] =
                [o4 EXCEPT
                   !.matDisposed = FALSE,
                   !.material = Some(MaterialTypeOf(cfg)),
                   !.transparent = IF lo < FullOpacity THEN TRUE ELSE newMat[1].transparent,
                   !.opacity = IF lo < FullOpacity
                               THEN ScaleOpacity(newMat[1].opacity, lo)
                               ELSE newMat[1].opacity]]]
      ELSE [sC EXCEPT !.three = [@ EXCEPT ![h] = o4]]

\* setLayerVisibility(layerId, visible)
do_setLayerVisibility(s, layerId, visible) ==
  LET ls == IF layerId \in DOMAIN s.layers THEN s.layers
            ELSE WithLayer(s.layers, layerId, NewLayer)
      inLayer == {s.objects[i].threeObj :
                    i \in {j \in 1 .. Len(s.objects) : LayerOf(s.objects[j].config) = layerId}}
      enabledOf(h) == \E i \in 1 .. Len(s.objects) :
                        /\ s.objects[i].threeObj = h
                        /\ s.objects[i].config.enabled /= Some(FALSE)
  IN [s EXCEPT
        !.layers = [ls EXCEPT ![layerId].visible = visible],
        !.three = [h \in Handles |->
                     IF h \in inLayer
                     THEN [s.three[h] EXCEPT !.visible = visible /\ enabledOf(h)]
                     ELSE s.three[h]]]

\* updateLayerOpacity(layerId, opacity)
do_updateLayerOpacity(s, layerId, opacity) ==
  LET ls == IF layerId \in DOMAIN s.layers THEN s.layers
            ELSE WithLayer(s.layers, layerId, NewLayer)
      cfgOf(h) == s.objects[CHOOSE i \in 1 .. Len(s.objects) : s.objects[i].threeObj = h].config
      inLayer == {s.objects[i].threeObj :
                    i \in {j \in 1 .. Len(s.objects) : LayerOf(s.objects[j].config) = layerId}}
  IN [s EXCEPT
        !.layers = [ls EXCEPT ![layerId].opacity = opacity],
        !.three = [h \in Handles |->
          IF h \in inLayer /\ s.three[h].kind = "mesh"
          THEN LET base == BaseMaterialOpacity(cfgOf(h)) IN
               IF opacity < FullOpacity
               THEN [s.three[h] EXCEPT !.transparent = TRUE,
                                       !.opacity = ScaleOpacity(base, opacity)]
               ELSE [s.three[h] EXCEPT
                       !.opacity = base,
                       !.transparent = IF base = FullOpacity THEN FALSE ELSE @]
          ELSE s.three[h]]]

RECURSIVE AddAll(_, _, _)
\* configs.forEach(config => this.addObject({...config, layer: layerId}))
AddAll(s, layerId, configs) ==
  IF configs = <<>> THEN s
  ELSE AddAll(do_addObject(s, [Head(configs) EXCEPT !.layer = Some(layerId)]),
              layerId, Tail(configs))

\* the id addObjectsToLayer reports for every config
PlaceholderId == "23098409234"

\* addObjectsToLayer(layerId, configs); ret is the number of ids returned,
\* every one of which is the placeholder
do_addObjectsToLayer(s, layerId, configs) ==
  LET s1 == IF layerId \in DOMAIN s.layers THEN s
            ELSE [s EXCEPT !.layers =
                    WithLayer(s.layers, layerId, [visible |-> TRUE, opacity |-> FullOpacity])]
  IN [AddAll(s1, layerId, configs) EXCEPT !.ret = ToString(Len(configs))]

RECURSIVE RemoveAll(_, _)
\* objectsToRemove.forEach(obj => this.removeObject(obj.id))
RemoveAll(s, ids) ==
  IF ids = <<>> THEN s ELSE RemoveAll(do_removeObject(s, Head(ids)), Tail(ids))

RECURSIVE IdsInLayer(_, _)
IdsInLayer(objs, layerId) ==
  IF objs = <<>> THEN <<>>
  ELSE (IF LayerOf(Head(objs).config) = layerId THEN <<Head(objs).id>> ELSE <<>>)
         \o IdsInLayer(Tail(objs), layerId)

\* removeLayer(layerId); ret is the returned count
do_removeLayer(s, layerId) ==
  IF layerId \notin DOMAIN s.layers THEN [s EXCEPT !.ret = "0"]
  ELSE
    LET ids == IdsInLayer(s.objects, layerId)
        s1 == RemoveAll(s, ids)
    IN [s1 EXCEPT !.layers = WithoutLayer(s1.layers, layerId),
                  !.ret = ToString(Len(ids))]

\* ------------------------------------------------------------------ physics
IsInitialized(s) == s.jolt /\ s.jInterface /= 0

\* world ids: one per body of an abandoned world, the live one, a new one
Worlds == 1 .. (MaxBodies + 2)

\* a world id that no body and no interface uses
NewWorld(s) ==
  CHOOSE w \in Worlds :
    /\ w /= s.jInterface
    /\ \A b \in BodyIds : s.bodies[b].world /= w
    /\ \A v \in Worlds :
         (v /= s.jInterface /\ \A b \in BodyIds : s.bodies[b].world /= v) => w <= v

\* setupJOLT(), up to its first await; ret "true" when already initialized,
\* "pending" when the call now awaits the module load
do_setupJOLT(s) ==
  IF s.jolt /\ s.jInterface /= 0 THEN [s EXCEPT !.ret = "true"]
  ELSE [s EXCEPT !.pending = @ + 1, !.ret = "pending"]

\* setupJOLT(), from the await on: the load fails (first catch), or the
\* module is loaded and the world is built, or building it throws (second
\* catch); ret is the value the promise resolves to
do_setupJOLT_resume(s, loaded, built) ==
  LET s0 == [s EXCEPT !.pending = @ - 1] IN
  IF ~loaded THEN [s0 EXCEPT !.ret = "false"]
  ELSE IF ~built THEN [s0 EXCEPT !.jolt = TRUE, !.time = 0, !.ret = "false"]
  ELSE [s0 EXCEPT
          !.jolt = TRUE,
          !.time = 0,
          !.jInterface = NewWorld(s),
          !.nativeGravity = Some(IF IsSome(s.gravity.vector) THEN s.gravity.vector[1]
                                 ELSE EarthGravity),
          !.ret = "true"]

\* a body the engine creates and adds to the live world
CreateBody(s, motionType, layer, position, rotation) ==
  [motionType |-> motionType, layer |-> layer, world |-> s.jInterface, added |-> TRUE,
   position |-> position, rotation |-> rotation, moving |-> FALSE, force |-> 0]

\* createFloor(size)
do_createFloor(s) ==
  IF ~IsInitialized(s) THEN s   \* new this.jolt.X / this.bodyInterface.X throws: caught
  ELSE
    LET b == NewBody(s)
        h == NewHandle(s)
    IN [s EXCEPT
          !.bodies = [@ EXCEPT ![b] = CreateBody(s, "static", LAYER_NON_MOVING, 0, 0)],
          !.three = [@ EXCEPT ![h] =
             [FreeHandle EXCEPT !.kind = "mesh", !.body = b, !.geometry = Some("box"),
                                !.material = Some("lambert")]],
          !.scene = @ \cup {h},
          !.floorMeshes = @ \cup {h}]

StaticBulkPhysics ==
  [BasePhysics EXCEPT !.motionType = Some("static"), !.friction = Some(20),
                      !.restitution = Some(0)]

IsMainMesh(s, i) ==
  LayerOf(s.objects[i].config) = "main" /\ s.three[s.objects[i].threeObj].kind = "mesh"

RECURSIVE ConvertEach(_, _)
\* the forEach of convertMainLayerToStaticBodies, from entry i on
ConvertEach(s, i) ==
  IF i > Len(s.objects) THEN s
  ELSE IF ~IsMainMesh(s, i) THEN ConvertEach(s, i + 1)
  ELSE
    LET h == s.objects[i].threeObj
        b == NewBody(s)
        s1 == [s EXCEPT
                 !.bodies = [@ EXCEPT ![b] =
                    CreateBody(s, "static", LAYER_NON_MOVING,
                               s.three[h].position, s.three[h].rotation)],
                 !.three = [@ EXCEPT ![h] = [@ EXCEPT !.body = b, !.isStatic = Some(TRUE)]],
                 !.objects = [@ EXCEPT ![i].config.physics = Some(StaticBulkPhysics)]]
    IN ConvertEach(s1, i + 1)

\* convertMainLayerToStaticBodies()
do_convertMainLayerToStaticBodies(s) ==
  IF ~IsInitialized(s) THEN s   \* the first body construction throws: caught
  ELSE ConvertEach(s, 1)

\* dropTestBall(position); ret "mesh" when the ball is returned
do_dropTestBall(s, position) ==
  IF ~IsInitialized(s) THEN s   \* throws before anything is stored: caught
  ELSE
    LET b == NewBody(s)
        h == NewHandle(s)
        id == ToString(Len(s.objects))
        config == [BaseConfig EXCEPT
                     !.type = Some("mesh"), !.shape = Some("sphere"),
                     !.material = Some([BaseMaterial EXCEPT !.type = Some("phong")]),
                     !.pos = Some(position),
                     !.rot = Some([length |-> 4, v |-> 0]),
                     !.name = Some("Test Ball " \o id),
                     !.layer = Some("main"), !.enabled = Some(TRUE)]
    IN [s EXCEPT
          !.bodies = [@ EXCEPT ![b] = CreateBody(s, "dynamic", LAYER_MOVING, position, 0)],
          !.three = [@ EXCEPT ![h] =
             [FreeHandle EXCEPT !.kind = "mesh", !.position = position,
                                !.geometry = Some("sphere"), !.material = Some("phong"),
                                !.body = b, !.isDynamic = Some(TRUE)]],
          !.scene = @ \cup {h},
          !.dynamicObjects = Append(@, h),
          !.objects = Append(@, [id |-> id, threeObj |-> h, config |-> config]),
          !.ret = "mesh"]

\* delete userData.body / isStatic / isDynamic / isKinematic / physicsConfig
ClearPhysics(obj) ==
  [obj EXCEPT !.body = 0, !.isStatic = None, !.isDynamic = None, !.isKinematic = None,
              !.physicsConfig = None]

\* resetPhysics(); failing is the set of bodies whose RemoveBody / DestroyBody
\* raises: the error is caught per body, the body stays in the engine and the
\* sweep goes on
do_resetPhysics(s, failing) ==
  IF ~IsInitialized(s) THEN s
  ELSE
    LET swept == {s.objects[i].threeObj : i \in 1 .. Len(s.objects)}
                   \cup SeqRange(s.dynamicObjects)
        hit == {h \in swept : s.three[h].body /= 0}
        gone == {s.three[h].body : h \in hit} \cup
                {b \in BodyIds : s.bodies[b].world = s.jInterface}
    IN [s EXCEPT
          !.isPhysicsRunning = FALSE,
          !.three = [h \in Handles |-> IF h \in hit THEN ClearPhysics(s.three[h])
                                       ELSE s.three[h]],
          !.objects = [i \in 1 .. Len(s.objects) |->
                         IF s.three[s.objects[i].threeObj].body /= 0
                         THEN [s.objects[i] EXCEPT !.config.physics = None]
                         ELSE s.objects[i]],
          !.bodies = [b \in BodyIds |->
                        IF /\ b \in gone
                           /\ b \notin failing \/ s.bodies[b].world = s.jInterface
                           /\ s.bodies[b].motionType /= "free"
                        THEN [s.bodies[b] EXCEPT !.world = 0, !.added = FALSE]
                        ELSE s.bodies[b]],
          !.dynamicObjects = <<>>,
          !.savedTransforms = <<>>,
          !.jInterface = 0,
          !.nativeGravity = None]

isPhysicsInitialized(s) == s.jolt /\ s.jInterface /= 0

\* the engine motion type convertObjectToDynamic maps physicsConfig.motionType to
MotionTypeOf(physicsConfig) ==
  IF physicsConfig.motionType = Some("static") THEN "static"
  ELSE IF physicsConfig.motionType = Some("kinematic") THEN "kinematic"
  ELSE "dynamic"

\* the object layer convertObjectToDynamic gives a body of that motion type
ObjectLayerOf(motionType) ==
  IF motionType = "static" THEN LAYER_NON_MOVING ELSE LAYER_MOVING

\* convertObjectToDynamic(id, physicsConfig); ret "true" or "false".  A body of
\* a world that is no longer the live one is unknown to the live body
\* interface: removing it either throws (engineThrows) or changes nothing there
do_convertObjectToDynamic(s, id, physicsConfig, engineThrows) ==
  IF ~(s.jolt /\ s.jInterface /= 0) THEN [s EXCEPT !.ret = "false"]
  ELSE
    LET i == findIndex(s.objects, id) IN
    IF i = 0 \/ s.three[s.objects[i].threeObj].kind /= "mesh"
    THEN [s EXCEPT !.ret = "false"]
    ELSE
      LET mesh == s.objects[i].threeObj
          oldBody == s.three[mesh].body
          foreign == oldBody /= 0 /\ s.bodies[oldBody].world /= s.jInterface
      IN
      IF foreign /\ engineThrows THEN [s EXCEPT !.ret = "false"]
      ELSE
        LET s1 == IF oldBody = 0 THEN s
                  ELSE [s EXCEPT
                          !.bodies = [@ EXCEPT ![oldBody] =
                                        IF foreign THEN @ ELSE FreeBody],
                          !.three = [@ EXCEPT ![mesh] =
                                       [@ EXCEPT !.body = 0, !.isStatic = None,
                                                 !.isDynamic = None]]]
            motionType == MotionTypeOf(physicsConfig)
            b == NewBody(s1)
            body == CreateBody(s1, motionType, ObjectLayerOf(motionType),
                               s1.three[mesh].position, s1.three[mesh].rotation)
            index == indexOf(s1.dynamicObjects, mesh)
        IN [s1 EXCEPT
              !.bodies = [@ EXCEPT ![b] = body],
              !.three = [@ EXCEPT ![mesh] =
                 [@ EXCEPT !.body = b,
                           !.isDynamic = Some(motionType = "dynamic"),
                           !.isStatic = Some(motionType = "static"),
                           !.isKinematic = Some(motionType = "kinematic"),
                           !.physicsConfig = Some(physicsConfig)]],
              !.objects = [@ EXCEPT ![i].config.physics = Some(physicsConfig)],
              !.dynamicObjects =
                 IF motionType = "dynamic"
                 THEN (IF index = 0 THEN Append(@, mesh) ELSE @)
                 ELSE (IF index > 0 THEN RemoveAt(@, index) ELSE @),
              !.ret = "true"]

RECURSIVE BatchEach_stopAtFailure(_, _, _, _, _, _)
\* a forEach that gives up at the first id that fails
BatchEach_stopAtFailure(s, ids, physicsConfig, engineThrows, successCount, failedCount) ==
  IF ids = <<>> \/ failedCount > 0
  THEN [s EXCEPT !.ret = ToString(successCount) \o "/" \o ToString(failedCount)]
  ELSE LET s1 == do_convertObjectToDynamic(s, Head(ids), physicsConfig, engineThrows)
           ok == s1.ret = "true"
       IN BatchEach_stopAtFailure(s1, Tail(ids), physicsConfig, engineThrows,
                                  successCount + (IF ok THEN 1 ELSE 0),
                                  failedCount + (IF ok THEN 0 ELSE 1))

RECURSIVE BatchEach(_, _, _, _, _, _)
\* the forEach of batchConvertToPhysics
BatchEach(s, ids, physicsConfig, engineThrows, successCount, failedCount) ==
  IF ids = <<>>
  THEN [s EXCEPT !.ret = ToString(successCount) \o "/" \o ToString(failedCount)]
  ELSE LET s1 == do_convertObjectToDynamic(s, Head(ids), physicsConfig, engineThrows)
           ok == s1.ret = "true"
       IN BatchEach(s1, Tail(ids), physicsConfig, engineThrows,
                    successCount + (IF ok THEN 1 ELSE 0),
                    failedCount + (IF ok THEN 0 ELSE 1))

\* batchConvertToPhysics(objectIds, physicsConfig); ret is "false" when physics
\* is not initialized, else "<successCount>/<failedCount>"
do_batchConvertToPhysics(s, objectIds, physicsConfig, engineThrows) ==
  IF ~(s.jolt /\ s.jInterface /= 0) THEN [s EXCEPT !.ret = "false"]
  ELSE BatchEach(s, objectIds, physicsConfig, engineThrows, 0, 0)

RECURSIVE ConvertConfigured(_, _)
\* this.objects.forEach(obj => { if (obj.config.physics)
\*   this.convertObjectToDynamic(obj.id, obj.config.physics) }), from entry i on
ConvertConfigured(s, i) ==
  IF i > Len(s.objects) THEN s
  ELSE IF IsSome(s.objects[i].config.physics)
  THEN ConvertConfigured(
         do_convertObjectToDynamic(s, s.objects[i].id, s.objects[i].config.physics[1], FALSE),
         i + 1)
  ELSE ConvertConfigured(s, i + 1)

\* initializeScenePhysics() after its await: the floor, then a body for every
\* object whose config has a physics section
initializeScenePhysics_rest(s) ==
  [ConvertConfigured(do_createFloor(s), 1) EXCEPT !.ret = Undefined]

\* initializeScenePhysics(), up to its first await: with the module and the
\* world present it runs to its end, otherwise it awaits setupJOLT()
do_initializeScenePhysics(s) ==
  IF ~s.jolt \/ s.jInterface = 0 THEN do_setupJOLT(s)
  ELSE initializeScenePhysics_rest(s)

\* initializeScenePhysics(), from the await on: setupJOLT() resumes and
\* resolves (its result is not looked at), then the rest runs
do_initializeScenePhysics_resume(s, loaded, built) ==
  initializeScenePhysics_rest(do_setupJOLT_resume(s, loaded, built))

\* getObjectById(id): the index of the entry returned (0: undefined)
getObjectById(s, id) == findIndex(s.objects, id)

\* ------------------------------------------------- transform snapshot store
IsMeshOrGroup(obj) == obj.kind \in {"mesh", "group"}

\* Map.prototype.set: a key already present keeps its place and takes the value
MapSet(map, entry) ==
  IF findIndex(map, entry.id) = 0 THEN Append(map, entry)
  ELSE [map EXCEPT ![findIndex(map, entry.id)] = entry]

RECURSIVE SaveEach(_, _, _)
SaveEach(s, i, map) ==
  IF i > Len(s.objects) THEN map
  ELSE LET obj == s.three[s.objects[i].threeObj] IN
       SaveEach(s, i + 1,
                IF IsMeshOrGroup(obj)
                THEN MapSet(map, [id |-> s.objects[i].id, position |-> obj.position,
                                  rotation |-> obj.rotation, scale |-> obj.scale])
                ELSE map)

\* saveObjectTransforms()
do_saveObjectTransforms(s) == [s EXCEPT !.savedTransforms = SaveEach(s, 1, <<>>)]

RECURSIVE RestoreEach(_, _, _)
\* the forEach of restoreObjectTransforms, from snapshot k on; a body of a
\* world that is not the live one is unknown to the live body interface:
\* SetPositionAndRotation either throws (engineThrows) or leaves it alone
RestoreEach(s, k, engineThrows) ==
  IF k > Len(s.savedTransforms) THEN s
  ELSE
    LET t == s.savedTransforms[k]
        i == findIndex(s.objects, t.id)
    IN
    IF i = 0 THEN RestoreEach(s, k + 1, engineThrows)
    ELSE
      LET h == s.objects[i].threeObj
          b == s.three[h].body
          s1 == [s EXCEPT !.three = [@ EXCEPT ![h] =
                   [@ EXCEPT !.position = t.position, !.rotation = t.rotation,
                             !.scale = t.scale]]]
      IN
      IF b = 0 \/ s.jInterface = 0 THEN RestoreEach(s1, k + 1, engineThrows)
      ELSE IF s.bodies[b].world /= s.jInterface
      THEN IF engineThrows THEN [s1 EXCEPT !.ret = "throw"]
           ELSE RestoreEach([s1 EXCEPT !.bodies = [@ EXCEPT ![b] = [@ EXCEPT !.moving = FALSE]]],
                            k + 1, engineThrows)
      ELSE RestoreEach(
             [s1 EXCEPT !.bodies = [@ EXCEPT ![b] =
                [@ EXCEPT !.position = t.position, !.rotation = t.rotation,
                          !.moving = FALSE]]],
             k + 1, engineThrows)

\* restoreObjectTransforms()
do_restoreObjectTransforms(s, engineThrows) == RestoreEach(s, 1, engineThrows)

\* ------------------------------------------------------- simulation clock
\* startPhysics() without its "not initialized" return
do_startPhysics_unguarded(s) ==
  [do_saveObjectTransforms(s) EXCEPT !.isPhysicsRunning = TRUE, !.ret = "true"]

\* startPhysics(); ret "true" or "false"
do_startPhysics(s) ==
  IF ~(s.jolt /\ s.jInterface /= 0) THEN [s EXCEPT !.ret = "false"]
  ELSE [do_saveObjectTransforms(s) EXCEPT !.isPhysicsRunning = TRUE, !.ret = "true"]

\* stopPhysics(); ret "true", "false", or "throw" when the restore raises
do_stopPhysics(s, engineThrows) ==
  IF ~(s.jolt /\ s.jInterface /= 0) THEN [s EXCEPT !.ret = "false"]
  ELSE LET s1 == do_restoreObjectTransforms(
                   [s EXCEPT !.isPhysicsRunning = FALSE, !.ret = "true"], engineThrows)
       IN s1

\* the bodies the engine integrates in a Step of the live world
SteppedBodies(s) ==
  {b \in BodyIds : /\ s.bodies[b].motionType = "dynamic"
                   /\ s.bodies[b].added
                   /\ s.bodies[b].world = s.jInterface}

\* a frame loop that hands the clock's delta to the engine as it is
ClampDelta_unclamped(elapsed) == elapsed

\* Math.min(clock.getDelta(), 1 / 30), in microseconds
ClampDelta(elapsed) == Min2(elapsed, MaxDeltaTime)

\* deltaTime > 1 / 55 ? 2 : 1
NumSteps(deltaTime) == IF deltaTime > SubStepThreshold THEN 2 ELSE 1

\* this.gravityCenter: the origin, set by the constructor and assigned nowhere
\* else
gravityCenter == 0

Sign(x) == IF x > 0 THEN 1 ELSE IF x < 0 THEN -1 ELSE 0

\* a radial branch without the distSq > 0.0001 test: dir.Normalized() of the
\* zero vector is not a number, and the force added is not zero
RadialForce_noEpsilon(s, body) ==
  IF body.motionType /= "dynamic" THEN 0
  ELSE IF body.position = gravityCenter THEN 1
  ELSE Sign(body.position - gravityCenter) * (0 - Sign(s.gravityStrength))

\* the direction of the force the radial branch of animate adds to a body,
\* unitDir.Mul(-forceMag * mass) with dir = pos.Sub(center); 0 when it adds none
\* (distSq <= 0.0001 or mass = 0)
RadialForce(s, body) ==
  IF body.position /= gravityCenter /\ body.motionType = "dynamic"
  THEN Sign(body.position - gravityCenter) * (0 - Sign(s.gravityStrength))
  ELSE 0

\* this.jInterface.Step(deltaTime, numSteps)
StepCall(deltaTime, numSteps) ==
  [call |-> "Step", deltaTime |-> deltaTime, numSteps |-> numSteps]

\* the end of animate(): controls.update() and renderScene() unless isServer;
\* without an orbit controls class this.controls is undefined and
\* controls.update() throws before anything is rendered
FrameEnd(s) ==
  IF s.isServer THEN s
  ELSE IF ~s.OrbitControls THEN [s EXCEPT !.ret = "throw"]
  ELSE [s EXCEPT !.frame = @ \o <<Call("render")>>]

\* one frame of animate(): elapsed is the clock's delta, moved the position
\* the engine's Step leaves each integrated body at; a body's force is the
\* sum of the forces added to it in the latest frame (one AddForce for each
\* entry of dynamicObjects that holds the body)
do_animate(s, elapsed, moved) ==
  IF ~(s.jInterface /= 0 /\ s.isPhysicsRunning) THEN FrameEnd(s)
  ELSE
    LET deltaTime == ClampDelta(elapsed)
        holders(b) == IF s.gravityType = "radial"
                      THEN {k \in 1 .. Len(s.dynamicObjects) :
                              s.three[s.dynamicObjects[k]].body = b}
                      ELSE {}
        fs == [b \in BodyIds |->
                 IF s.bodies[b].motionType = "free" THEN s.bodies[b]
                 ELSE [s.bodies[b] EXCEPT
                         !.force = Cardinality(holders(b)) * RadialForce(s, s.bodies[b])]]
        bs == [b \in BodyIds |->
                 IF b \in SteppedBodies(s)
                 THEN [fs[b] EXCEPT !.position = moved[b],
                                    !.moving = moved[b] /= s.bodies[b].position \/ @]
                 ELSE fs[b]]
        pulled == {h \in SeqRange(s.dynamicObjects) : s.three[h].body /= 0}
        addForce == IF \E b \in BodyIds : fs[b].force /= 0
                    THEN <<Call("AddForce")>> ELSE <<>>
    IN FrameEnd(
       [s EXCEPT
          !.bodies = bs,
          !.three = [h \in Handles |->
                       IF h \in pulled
                       THEN [s.three[h] EXCEPT !.position = bs[s.three[h].body].position,
                                               !.rotation = bs[s.three[h].body].rotation]
                       ELSE s.three[h]],
          !.time = @ + deltaTime,
          !.frame = addForce \o <<StepCall(deltaTime, NumSteps(deltaTime)),
                                   Call("copy")>>])

\* updatePhysics(deltaTime): one Step of the world; this.jInterface is not
\* tested, and without a world the call throws
do_updatePhysics(s, deltaTime, moved) ==
  IF s.jInterface = 0 THEN [s EXCEPT !.ret = "throw"]
  ELSE [s EXCEPT
          !.bodies = [b \in BodyIds |->
                        IF b \in SteppedBodies(s)
                        THEN [@[b] EXCEPT !.position = moved[b],
                                          !.moving = moved[b] /= s.bodies[b].position \/ @]
                        ELSE @[b]],
          !.frame = @ \o <<StepCall(deltaTime, NumSteps(deltaTime))>>]

\* one frame of renderSync(): the handles of dynamicObjects take the transforms
\* their bodies have, then time advances, then updatePhysics steps the world;
\* a handle of dynamicObjects without a body makes body.GetPosition() throw,
\* the handles before it already copied
do_renderSync(s, elapsed, moved) ==
  LET deltaTime == ClampDelta(elapsed)
      bodiless == {k \in 1 .. Len(s.dynamicObjects) : s.three[s.dynamicObjects[k]].body = 0}
      stop == IF bodiless = {} THEN Len(s.dynamicObjects) + 1
              ELSE CHOOSE k \in bodiless : \A j \in bodiless : k <= j
      copied == {s.dynamicObjects[k] : k \in 1 .. (stop - 1)}
      s1 == [s EXCEPT
               !.three = [h \in Handles |->
                            IF h \in copied
                            THEN [@[h] EXCEPT !.position = s.bodies[s.three[h].body].position,
                                              !.rotation = s.bodies[s.three[h].body].rotation]
                            ELSE @[h]]]
  IN IF bodiless /= {} THEN [s1 EXCEPT !.ret = "throw"]
     ELSE do_updatePhysics([s1 EXCEPT !.time = @ + deltaTime, !.frame = <<Call("copy")>>],
                           deltaTime, moved)

\* ------------------------------------------------------------------ camera
\* a Partial<CameraConfig>: every property optional
BaseCameraConfig ==
  [position |-> None, lookAt |-> None, fov |-> None, near |-> None, far |-> None,
   locked |-> None, orbitTarget |-> None, orbitEnabled |-> None]

\* this.camera and this.controls both exist: a browser instance that was given
\* an orbit controls class
HasCameraRig(s) == ~s.isServer /\ s.OrbitControls

\* {...this.sceneConfig.camera, ...config}
MergeCamera(stored, config) ==
  [k \in DOMAIN stored |-> IF IsSome(config[k]) THEN config[k][1] ELSE stored[k]]

\* setCameraLocked(locked)
do_setCameraLocked(s, locked) ==
  [s EXCEPT !.camera =
     [@ EXCEPT !.cameraLocked = locked,
               !.enabled = IF HasCameraRig(s)
                           THEN ~locked /\ s.camera.config.orbitEnabled ELSE @,
               !.config = [@ EXCEPT !.locked = locked]]]

\* setCameraConfig(config)
do_setCameraConfig(s, config) ==
  IF ~HasCameraRig(s) THEN s
  ELSE
    LET applied ==
          [s EXCEPT !.camera =
             [@ EXCEPT
                !.config = MergeCamera(@, config),
                !.position = IF IsSome(config.position) THEN config.position[1] ELSE @,
                !.lookAt = IF IsSome(config.lookAt) THEN config.lookAt[1] ELSE @,
                !.fov = IF IsSome(config.fov) THEN config.fov[1] ELSE @,
                !.near = IF IsSome(config.near) THEN config.near[1] ELSE @,
                !.far = IF IsSome(config.far) THEN config.far[1] ELSE @,
                !.target = IF IsSome(config.orbitTarget) THEN config.orbitTarget[1] ELSE @,
                !.enabled = IF IsSome(config.orbitEnabled)
                            THEN config.orbitEnabled[1] /\ ~s.camera.cameraLocked
                            ELSE @]]
    IN IF IsSome(config.locked) THEN do_setCameraLocked(applied, config.locked[1])
       ELSE applied

\* getCameraConfig(): the stored config without a camera rig, else the values
\* read from the camera and the controls
do_getCameraConfig(s) ==
  [s EXCEPT !.ret =
     IF ~HasCameraRig(s) THEN s.camera.config
     ELSE [position |-> s.camera.position, lookAt |-> s.camera.target,
           fov |-> s.camera.fov, near |-> s.camera.near, far |-> s.camera.far,
           locked |-> s.camera.cameraLocked, orbitTarget |-> s.camera.target,
           orbitEnabled |-> s.camera.enabled]]

\* ------------------------------------------------------------ shape scaler
\* the dimensions of a shape descriptor, each optional, in tenths
BaseShape ==
  [type |-> None, width |-> None, height |-> None, depth |-> None, radius |-> None,
   radiusTop |-> None, radiusBottom |-> None, tube |-> None]

\* value || fallback on an optional number: absent and 0 both give the fallback
OrDefault(value, fallback) ==
  IF IsSome(value) /\ value[1] /= 0 THEN value[1] ELSE fallback

Max2(a, b) == IF a > b THEN a ELSE b
Max3(a, b, c) == Max2(a, Max2(b, c))

\* the dimensions createGeometry builds a shape of these six types with
GeometryDimensions(shape) ==
  LET type == IF IsSome(shape.type) THEN shape.type[1] ELSE Undefined IN
  CASE type = "box" ->
         [BaseShape EXCEPT !.type = shape.type,
                           !.width = Some(OrDefault(shape.width, 10)),
                           !.height = Some(OrDefault(shape.height, 10)),
                           !.depth = Some(OrDefault(shape.depth, 10))]
    [] type = "sphere" ->
         [BaseShape EXCEPT !.type = shape.type,
                           !.radius = Some(OrDefault(shape.radius, 10))]
    [] type = "plane" ->
         [BaseShape EXCEPT !.type = shape.type,
                           !.width = Some(OrDefault(shape.width, 10)),
                           !.height = Some(OrDefault(shape.height, 10))]
    [] type = "cylinder" ->
         [BaseShape EXCEPT !.type = shape.type,
                           !.radiusTop = Some(OrDefault(shape.radiusTop, 10)),
                           !.radiusBottom = Some(OrDefault(shape.radiusBottom, 10)),
                           !.height = Some(OrDefault(shape.height, 10))]
    [] type = "cone" ->
         [BaseShape EXCEPT !.type = shape.type,
                           !.radius = Some(OrDefault(shape.radius, 10)),
                           !.height = Some(OrDefault(shape.height, 10))]
    [] type = "torus" ->
         [BaseShape EXCEPT !.type = shape.type,
                           !.radius = Some(OrDefault(shape.radius, 10)),
                           !.tube = Some(OrDefault(shape.tube, 4))]
    [] OTHER -> shape

\* a scaler that takes the height of a plane along the y axis
PlaneHeightAxis_y(scale) == scale.y

\* the axis a plane's height is scaled by: scale.z ("Assuming Y-up plane")
PlaneHeightAxis(scale) == scale.z

\* getScaledShapeDimensions(config, mesh): shape is config.shape as an optional
\* descriptor, scale is mesh.scale; a copy of the shape with the dimensions of
\* its type rewritten, Null without a shape
getScaledShapeDimensions(shape, scale) ==
  IF ~IsSome(shape) THEN Null
  ELSE
    LET sh == shape[1]
        type == IF IsSome(sh.type) THEN sh.type[1] ELSE Undefined
    IN CASE type = "box" ->
              [sh EXCEPT !.width = Some(OrDefault(sh.width, 10) * scale.x),
                         !.height = Some(OrDefault(sh.height, 10) * scale.y),
                         !.depth = Some(OrDefault(sh.depth, 10) * scale.z)]
         [] type = "sphere" ->
              [sh EXCEPT !.radius =
                 Some(OrDefault(sh.radius, 10) * Max3(scale.x, scale.y, scale.z))]
         [] type = "plane" ->
              [sh EXCEPT !.width = Some(OrDefault(sh.width, 10) * scale.x),
                         !.height = Some(OrDefault(sh.height, 10) * PlaneHeightAxis(scale))]
         [] type = "cylinder" ->
              [sh EXCEPT !.radiusTop =
                           Some(OrDefault(sh.radiusTop, 10) * Max2(scale.x, scale.z)),
                         !.radiusBottom =
                           Some(OrDefault(sh.radiusBottom, 10) * Max2(scale.x, scale.z)),
                         !.height = Some(OrDefault(sh.height, 10) * scale.y)]
         [] type = "cone" ->
              [sh EXCEPT !.radius = Some(OrDefault(sh.radius, 10) * Max2(scale.x, scale.z)),
                         !.height = Some(OrDefault(sh.height, 10) * scale.y)]
         [] type = "torus" ->
              [sh EXCEPT !.radius = Some(OrDefault(sh.radius, 10) * Max2(scale.x, scale.z)),
                         !.tube =
                           Some(OrDefault(sh.tube, 4) * Max3(scale.x, scale.y, scale.z))]
         [] OTHER -> sh

\* ---------------------------------------------------------- collision shapes
\* a shape handed to the engine: its class and its arguments in hundredths;
\* an argument computed from an absent dimension is <<>> (NaN)
JoltShape(class, args) == [class |-> class, args |-> args]

\* dimension / 2 and dimension, a dimension being an optional number of tenths
HalfOf(value) == IF IsSome(value) THEN Some(value[1] * 5) ELSE None
WholeOf(value) == IF IsSome(value) THEN Some(value[1] * 10) ELSE None

\* new this.jolt.BoxShape(new Vec3(size.x / 2, size.y / 2, size.z / 2)), size
\* being the size of new THREE.Box3().setFromObject(mesh) in tenths
BoundingBoxShape(size) ==
  JoltShape("BoxShape", <<Some(size.x * 5), Some(size.y * 5), Some(size.z * 5)>>)

\* the size of new THREE.Box3().setFromObject(mesh) in tenths, for a mesh that
\* is not rotated: the extent of the geometry createGeometry built, by scale
MeshBoundingSize(shape, scale) ==
  LET dims == GeometryDimensions(shape)
      type == IF IsSome(shape.type) THEN shape.type[1] ELSE Undefined
      extent ==
        CASE type = "box" -> [x |-> dims.width[1], y |-> dims.height[1], z |-> dims.depth[1]]
          [] type = "sphere" ->
               [x |-> 2 * dims.radius[1], y |-> 2 * dims.radius[1], z |-> 2 * dims.radius[1]]
          [] type = "plane" -> [x |-> dims.width[1], y |-> dims.height[1], z |-> 0]
          [] type = "cylinder" ->
               [x |-> 2 * Max2(dims.radiusTop[1], dims.radiusBottom[1]),
                y |-> dims.height[1],
                z |-> 2 * Max2(dims.radiusTop[1], dims.radiusBottom[1])]
          [] type = "cone" ->
               [x |-> 2 * dims.radius[1], y |-> dims.height[1], z |-> 2 * dims.radius[1]]
          [] type = "torus" ->
               [x |-> 2 * (dims.radius[1] + dims.tube[1]),
                y |-> 2 * (dims.radius[1] + dims.tube[1]),
                z |-> 2 * dims.tube[1]]
          [] type = "capsule" ->
               [x |-> 2 * OrDefault(shape.radius, 5),
                y |-> OrDefault(shape.height, 10) + 2 * OrDefault(shape.radius, 5),
                z |-> 2 * OrDefault(shape.radius, 5)]
          [] OTHER -> [x |-> 20, y |-> 20, z |-> 0]
  IN [x |-> extent.x * scale.x, y |-> extent.y * scale.y, z |-> extent.z * scale.z]

\* the thin box of a plane, 0.01 high
PlaneShape(scaled) ==
  JoltShape("BoxShape", <<HalfOf(scaled.width), Some(1), HalfOf(scaled.height)>>)

\* the shape of a cylinder: a CylinderShape when radiusTop === radiusBottom,
\* else a box around the wider end
CylinderShapeOf(scaled) ==
  IF scaled.radiusTop = scaled.radiusBottom
  THEN JoltShape("CylinderShape", <<HalfOf(scaled.height), WholeOf(scaled.radiusTop)>>)
  ELSE LET wide == Some(10 * Max2(scaled.radiusTop[1], scaled.radiusBottom[1]))
       IN JoltShape("BoxShape", <<wide, HalfOf(scaled.height), wide>>)

\* the joltShape convertMainLayerToStaticBodies builds for a mesh: shape is
\* config.shape, scale is mesh.scale, size the mesh's bounding box
BulkCollisionShape(shape, scale, size) ==
  IF ~IsSome(shape) THEN BoundingBoxShape(size)
  ELSE
    LET scaled == getScaledShapeDimensions(shape, scale)
        type == IF IsSome(scaled.type) THEN scaled.type[1] ELSE Undefined
    IN CASE type = "box" ->
              JoltShape("BoxShape",
                        <<HalfOf(scaled.width), HalfOf(scaled.height), HalfOf(scaled.depth)>>)
         [] type = "sphere" -> JoltShape("SphereShape", <<WholeOf(scaled.radius)>>)
         [] type = "plane" -> PlaneShape(scaled)
         [] type = "cylinder" -> CylinderShapeOf(scaled)
         [] OTHER -> BoundingBoxShape(size)

\* the joltShape convertObjectToDynamic builds for a mesh, whatever the
\* motion type
CollisionShape(shape, scale, size) ==
  IF ~IsSome(shape) THEN BoundingBoxShape(size)
  ELSE
    LET scaled == getScaledShapeDimensions(shape, scale)
        type == IF IsSome(scaled.type) THEN scaled.type[1] ELSE Undefined
    IN CASE type = "box" ->
              JoltShape("BoxShape",
                        <<HalfOf(scaled.width), HalfOf(scaled.height), HalfOf(scaled.depth)>>)
         [] type = "sphere" -> JoltShape("SphereShape", <<WholeOf(scaled.radius)>>)
         [] type = "plane" -> PlaneShape(scaled)
         [] type = "cylinder" -> CylinderShapeOf(scaled)
         [] type = "cone" ->
              JoltShape("BoxShape",
                        <<WholeOf(scaled.radius), HalfOf(scaled.height), WholeOf(scaled.radius)>>)
         [] type = "torus" ->
              JoltShape("CylinderShape", <<WholeOf(scaled.tube), WholeOf(scaled.radius)>>)
         [] type = "capsule" ->
              JoltShape("CapsuleShape", <<HalfOf(scaled.height), WholeOf(scaled.radius)>>)
         [] OTHER -> BoundingBoxShape(size)

\* --------------------------------------------------------- export / import
\* the state the constructor leaves a new instance in
NewInstance ==
  [objects |-> <<>>, three |-> [h \in Handles |-> FreeHandle], scene |-> {},
   floorMeshes |-> {},
   layers |-> [l \in {"main"} |-> [visible |-> TRUE, opacity |-> FullOpacity]],
   selectedHelper |-> None, attractors |-> <<>>, jolt |-> FALSE, jInterface |-> 0,
   bodies |-> [b \in BodyIds |-> FreeBody], dynamicObjects |-> <<>>,
   isPhysicsRunning |-> FALSE, time |-> 0, savedTransforms |-> <<>>,
   gravity |-> [BaseGravity EXCEPT !.type = Some("uniform"), !.vector = Some(EarthGravity)],
   gravityType |-> "uniform", gravityStrength |-> DefaultGravityStrength,
   nativeGravity |-> None, pending |-> 0, isServer |-> FALSE, OrbitControls |-> TRUE,
   camera |-> NewCamera, frame |-> <<>>, ret |-> Undefined]

\* exportScene(): the scene entry (sceneConfig.camera is always set), then one
\* config per registry entry, position / euler / scale of meshes and groups
\* read from the live handle
exportScene(s) ==
  <<[BaseConfig EXCEPT !.type = Some("scene"), !.gravity = Some(s.gravity)]>> \o
  [i \in 1 .. Len(s.objects) |->
     LET obj == s.three[s.objects[i].threeObj]
         config == s.objects[i].config
     IN IF obj.kind \in {"mesh", "group"}
        THEN [config EXCEPT !.pos = Some(obj.position),
                            !.euler = Some(eulerDeg(obj.rotation)),
                            !.scale = Some(obj.scale)]
        ELSE config]

\* what JSON.parse makes of a text: a syntax error, a value that is no array,
\* or an array of configs
MalformedJSON == [valid |-> FALSE, isArray |-> FALSE, data |-> <<>>]
NotAnArray == [valid |-> TRUE, isArray |-> FALSE, data |-> <<>>]
JSONArray(data) == [valid |-> TRUE, isArray |-> TRUE, data |-> data]

RECURSIVE InterpretEach(_, _, _)
\* sceneData.forEach of interpretJSON; physicsObjects collects <<id, physics>>
InterpretEach(s, sceneData, physicsObjects) ==
  IF sceneData = <<>> THEN <<s, physicsObjects>>
  ELSE LET config == Head(sceneData)
           s1 == do_addObject(s, config)
       IN InterpretEach(s1, Tail(sceneData),
            IF s1.ret /= Null /\ IsSome(config.physics) /\ s.jolt /\ s.jInterface /= 0
            THEN Append(physicsObjects, <<s1.ret, config.physics[1]>>)
            ELSE physicsObjects)

RECURSIVE ApplyEach(_, _)
\* physicsObjects.forEach of interpretJSON
ApplyEach(s, physicsObjects) ==
  IF physicsObjects = <<>> THEN s
  ELSE ApplyEach(do_convertObjectToDynamic(s, Head(physicsObjects)[1],
                                           Head(physicsObjects)[2], FALSE),
                 Tail(physicsObjects))

\* an interpretJSON without the Array.isArray test: sceneData.forEach is not a
\* function on a value that is no array
do_interpretJSON_noArrayTest(s, json) ==
  IF ~json.valid THEN [s EXCEPT !.ret = "0"]
  ELSE IF ~json.isArray THEN [s EXCEPT !.ret = "throw"]
  ELSE LET r == InterpretEach(s, json.data, <<>>)
           s2 == IF r[2] /= <<>> /\ r[1].jolt /\ r[1].jInterface /= 0
                 THEN ApplyEach(r[1], r[2]) ELSE r[1]
       IN [s2 EXCEPT !.ret = ToString(Len(s2.objects))]

\* interpretJSON(jsonString); ret is the length of the returned list
do_interpretJSON(s, json) ==
  IF ~json.valid \/ ~json.isArray THEN [s EXCEPT !.ret = "0"]
  ELSE LET r == InterpretEach(s, json.data, <<>>)
           s2 == IF r[2] /= <<>> /\ r[1].jolt /\ r[1].jInterface /= 0
                 THEN ApplyEach(r[1], r[2]) ELSE r[1]
       IN [s2 EXCEPT !.ret = ToString(Len(s2.objects))]

\* ------------------------------------------------------------------ actions
HasFreeHandle == FreeHandles(State) /= {}
HasFreeBody == FreeBodies(State) /= {}
Initialized == jolt /\ jInterface /= 0

addObject(config) ==
  /\ Len(objects) < MaxObjects
  /\ HasFreeHandle
  /\ Len(attractors) < MaxObjects
  /\ Commit(do_addObject(State, config), "addObject",
            IF IsSome(config.name) THEN config.name[1] ELSE Undefined)

replaceObject(id, newConfig) ==
  /\ HasFreeHandle
  /\ Commit(do_replaceObject(State, id, newConfig), "replaceObject", id)

updateObject(id, updates) ==
  Commit(do_updateObject(State, id, updates), "updateObject", id)

removeObject(id) ==
  Commit(do_removeObject(State, id), "removeObject", id)

selectObject(id) ==
  Commit(do_selectObject(State, id), "selectObject", id)

setLayerVisibility(layerId, visible) ==
  Commit(do_setLayerVisibility(State, layerId, visible), "setLayerVisibility", layerId)

updateLayerOpacity(layerId, opacity) ==
  Commit(do_updateLayerOpacity(State, layerId, opacity), "updateLayerOpacity", layerId)

addObjectsToLayer(layerId, configs) ==
  /\ Len(objects) + Len(configs) <= MaxObjects
  /\ Cardinality(FreeHandles(State)) >= Len(configs)
  /\ Len(attractors) + Len(configs) <= MaxObjects
  /\ Commit(do_addObjectsToLayer(State, layerId, configs), "addObjectsToLayer", layerId)

removeLayer(layerId) ==
  Commit(do_removeLayer(State, layerId), "removeLayer", layerId)

setGravityConfig(config) ==
  Commit(do_setGravityConfig(State, config), "setGravityConfig", Undefined)

setupJOLT ==
  /\ Initialized \/ pending < MaxInFlight
  /\ Commit(do_setupJOLT(State), "setupJOLT", Undefined)

\* a setupJOLT() issued while another call awaits the module load
setupJOLT_again ==
  /\ pending > 0 /\ pending < MaxOverlap
  /\ Commit(do_setupJOLT(State), "setupJOLT", Undefined)

\* the handles and bodies the floor and the configured objects take
RoomForScenePhysics ==
  /\ HasFreeHandle
  /\ Cardinality(FreeBodies(State))
       > Cardinality({i \in 1 .. Len(objects) : IsSome(objects[i].config.physics)})

initializeScenePhysics ==
  /\ IF Initialized THEN RoomForScenePhysics ELSE pending < MaxOverlap
  /\ Commit(do_initializeScenePhysics(State), "initializeScenePhysics", Undefined)

\* the call that awaits is a setupJOLT() either way: which caller continues
\* after it is not part of the state
initializeScenePhysics_resume(loaded, built) ==
  /\ pending > 0
  /\ (Initialized \/ (loaded /\ built)) => RoomForScenePhysics
  /\ Commit(do_initializeScenePhysics_resume(State, loaded, built),
            "initializeScenePhysics_resume", Undefined)

setupJOLT_resume(loaded, built) ==
  /\ pending > 0
  /\ Commit(do_setupJOLT_resume(State, loaded, built), "setupJOLT_resume", Undefined)

createFloor ==
  /\ Initialized => (HasFreeHandle /\ HasFreeBody)
  /\ Commit(do_createFloor(State), "createFloor", Undefined)

convertMainLayerToStaticBodies ==
  /\ Initialized =>
       Cardinality(FreeBodies(State))
         >= Cardinality({i \in 1 .. Len(objects) : IsMainMesh(State, i)})
  /\ Commit(do_convertMainLayerToStaticBodies(State), "convertMainLayerToStaticBodies",
            Undefined)

dropTestBall(position) ==
  /\ Initialized => (HasFreeHandle /\ HasFreeBody /\ Len(objects) < MaxObjects)
  /\ Commit(do_dropTestBall(State, position), "dropTestBall", Undefined)

resetPhysics ==
  \E failing \in SUBSET BodyIds :
    Commit(do_resetPhysics(State, failing), "resetPhysics", Undefined)

\* a body is free for the conversion of id: the one it releases, or a spare one
BodyAvailableFor(id) ==
  \/ HasFreeBody
  \/ /\ findIndex(objects, id) > 0
     /\ three[objects[findIndex(objects, id)].threeObj].body /= 0
     /\ bodies[three[objects[findIndex(objects, id)].threeObj].body].world = jInterface

convertObjectToDynamic(id, physicsConfig, engineThrows) ==
  /\ Initialized => BodyAvailableFor(id)
  /\ Commit(do_convertObjectToDynamic(State, id, physicsConfig, engineThrows),
            "convertObjectToDynamic", id)

batchConvertToPhysics(objectIds, physicsConfig, engineThrows) ==
  /\ Initialized => Cardinality(FreeBodies(State)) >= Len(objectIds)
  /\ Commit(do_batchConvertToPhysics(State, objectIds, physicsConfig, engineThrows),
            "batchConvertToPhysics", Undefined)

startPhysics ==
  Commit(do_startPhysics(State), "startPhysics", Undefined)

stopPhysics(engineThrows) ==
  Commit(do_stopPhysics(State, engineThrows), "stopPhysics", Undefined)

animate(elapsed, moved) ==
  /\ (jInterface /= 0 /\ isPhysicsRunning) => time < MaxTime
  /\ Commit(do_animate(State, elapsed, moved), "animate", Undefined)

renderSync(elapsed, moved) ==
  /\ time < MaxTime
  /\ Commit(do_renderSync(State, elapsed, moved), "renderSync", Undefined)

\* the scaler, called with a shape and a scale; last.id holds the arguments
scaleShape(shape, scale) ==
  Commit([State EXCEPT !.ret = getScaledShapeDimensions(shape, scale)],
         "getScaledShapeDimensions", [shape |-> shape, scale |-> scale])

\* the collision shape either attachment path derives for one mesh; last.id
\* holds the mesh, last.ret the two shapes
collisionShapes(shape, scale) ==
  LET size == MeshBoundingSize(shape, scale) IN
  Commit([State EXCEPT !.ret = [bulk |-> BulkCollisionShape(Some(shape), scale, size),
                                single |-> CollisionShape(Some(shape), scale, size)]],
         "collisionShapes", [shape |-> shape, scale |-> scale])

\* last.id holds the config that was set
setCameraConfig(config) ==
  Commit(do_setCameraConfig(State, config), "setCameraConfig", config)

getCameraConfig ==
  Commit(do_getCameraConfig(State), "getCameraConfig", Undefined)

setCameraLocked(locked) ==
  Commit(do_setCameraLocked(State, locked), "setCameraLocked", Undefined)

\* the text that was read is last.id: what kind of value it parses to
interpretJSON(json) ==
  /\ Len(objects) + Len(json.data) <= MaxObjects
  /\ Cardinality(FreeHandles(State)) >= Len(json.data)
  /\ Initialized => Cardinality(FreeBodies(State)) >= Len(json.data)
  /\ Len(attractors) + Len(json.data) <= MaxObjects
  /\ Commit(do_interpretJSON(State, json), "interpretJSON",
            IF ~json.valid THEN "malformed" ELSE IF ~json.isArray THEN "value" ELSE "array")

\* ------------------------------------------------------------------- inputs
Names == {"a", "b"}
Ids == Names \cup {Undefined, "0", "1"}
LayerIds == {"main", "fx"}
Positions == {0, 1}

Box(name, pos) ==
  [BaseConfig EXCEPT !.shape = Some("box"), !.name = name, !.pos = Some(pos)]

SceneRadial ==
  [BaseConfig EXCEPT !.type = Some("scene"),
                     !.gravity = Some([BaseGravity EXCEPT !.type = Some("radial")])]

\* descriptors addObject accepts
GoodConfigs ==
  {Box(Some("a"), 0), Box(Some("a"), 1), Box(None, 0), Box(None, 1),
   [Box(Some("b"), 1) EXCEPT !.layer = Some("fx")],
   [BaseConfig EXCEPT !.type = Some("group"), !.name = Some("b")],
   [BaseConfig EXCEPT !.type = Some("light"), !.lightType = Some("point"),
                      !.name = Some("b")]}

\* descriptors whose object cannot be constructed
BadConfigs ==
  {[BaseConfig EXCEPT !.type = Some("light"), !.lightType = Some("laser")],
   [BaseConfig EXCEPT !.type = Some("helper"), !.helperType = Some("ruler")],
   [BaseConfig EXCEPT !.shape = Some("blob")],
   [BaseConfig EXCEPT !.shape = Some("box"),
                      !.material = Some([BaseMaterial EXCEPT !.type = Some("glitter")])],
   [BaseConfig EXCEPT !.type = Some("widget")]}

ReplaceConfigs ==
  BadConfigs \cup
  {[BaseConfig EXCEPT !.shape = Some("sphere"), !.pos = Some(1)],
   [BaseConfig EXCEPT !.shape = Some("sphere"), !.layer = Some("ghost")]}

Updates ==
  {[NoUpdates EXCEPT !.pos = Some(0)], [NoUpdates EXCEPT !.pos = Some(1)],
   [NoUpdates EXCEPT !.layer = Some("fx")], [NoUpdates EXCEPT !.enabled = Some(FALSE)]}

PhysicsConfigs ==
  {BasePhysics,
   [BasePhysics EXCEPT !.motionType = Some("static")],
   [BasePhysics EXCEPT !.motionType = Some("kinematic")]}

GravityConfigs ==
  {[BaseGravity EXCEPT !.type = Some("radial")],
   [BaseGravity EXCEPT !.type = Some("uniform")]}

ElapsedTimes == {10000, 50000}

\* -------------------------------------------------------------------- specs
\* the object registry alone: physics is never initialized
RegistryIds == {"a", Undefined}

RegistryConfigs ==
  {Box(Some("a"), 0), Box(None, 0), Box(None, 1),
   [Box(Some("b"), 1) EXCEPT !.layer = Some("fx")]}

NextRegistry ==
  \/ \E c \in RegistryConfigs \cup BadConfigs : addObject(c)
  \/ \E id \in RegistryIds, c \in ReplaceConfigs : replaceObject(id, c)
  \/ \E id \in RegistryIds : updateObject(id, [NoUpdates EXCEPT !.pos = Some(1)])
  \/ \E id \in RegistryIds : removeObject(id)
  \/ \E l \in LayerIds : setLayerVisibility(l, FALSE)
  \/ \E l \in LayerIds : updateLayerOpacity(l, FullOpacity)
  \/ \E l \in LayerIds : addObjectsToLayer(l, <<Box(Some("a"), 0)>>)
  \/ \E l \in LayerIds : removeLayer(l)

SpecRegistry == Init /\ [][NextRegistry]_vars

\* the registry with physics bodies: a world is set up and reset, objects are
\* given bodies, removed and replaced
PhysicsObjectConfigs ==
  {Box(Some("a"), 0), [Box(Some("b"), 1) EXCEPT !.layer = Some("fx")]}

NextPhysics ==
  \/ \E c \in PhysicsObjectConfigs : addObject(c)
  \/ removeObject("a")
  \/ replaceObject("a", [BaseConfig EXCEPT !.shape = Some("sphere"), !.pos = Some(1)])
  \/ removeLayer("main")
  \/ setupJOLT
  \/ \E loaded, built \in BOOLEAN : setupJOLT_resume(loaded, built)
  \/ resetPhysics
  \/ convertMainLayerToStaticBodies
  \/ dropTestBall(1)
  \/ \E pc \in {BasePhysics, StaticBulkPhysics} : convertObjectToDynamic("a", pc, FALSE)
  \/ batchConvertToPhysics(<<"a", "b">>, BasePhysics, FALSE)

SpecPhysics == Init /\ [][NextPhysics]_vars

\* the physics operations around the life of a world: before it is set up,
\* while the set-up is in flight, after it failed, once it is live, after reset
NextFailFast ==
  \/ addObject(Box(Some("a"), 0))
  \/ setupJOLT
  \/ \E loaded, built \in BOOLEAN : setupJOLT_resume(loaded, built)
  \/ resetPhysics
  \/ convertObjectToDynamic("a", BasePhysics, FALSE)
  \/ batchConvertToPhysics(<<"a">>, BasePhysics, FALSE)
  \/ startPhysics
  \/ stopPhysics(FALSE)
  \/ createFloor
  \/ convertMainLayerToStaticBodies
  \/ dropTestBall(1)

SpecFailFast == Init /\ [][NextFailFast]_vars

\* the simulation clock: objects are moved and given bodies, the simulation is
\* started, ticked and stopped
SimIds == {"a", Undefined}

SimObjectConfigs == {Box(Some("a"), 0), Box(None, 0), Box(None, 1)}

NextSim ==
  \/ \E c \in SimObjectConfigs : addObject(c)
  \/ \E id \in SimIds : updateObject(id, [NoUpdates EXCEPT !.pos = Some(1)])
  \/ setupJOLT
  \/ setupJOLT_resume(TRUE, TRUE)
  \/ \E id \in SimIds : convertObjectToDynamic(id, BasePhysics, FALSE)
  \/ startPhysics
  \/ stopPhysics(FALSE)
  \/ \E elapsed \in ElapsedTimes, p \in Positions :
       animate(elapsed, [b \in BodyIds |-> p])

SpecSim == Init /\ [][NextSim]_vars

\* the gravity model around the life of a world
NextGravity ==
  \/ \E g \in GravityConfigs : setGravityConfig(g)
  \/ \E c \in {SceneRadial, Box(Some("a"), 0)} : addObject(c)
  \/ setupJOLT
  \/ \E loaded, built \in BOOLEAN : setupJOLT_resume(loaded, built)
  \/ resetPhysics
  \/ convertObjectToDynamic("a", BasePhysics, FALSE)
  \/ startPhysics

SpecGravity == Init /\ [][NextGravity]_vars

\* layers: objects are added, replaced, updated and moved between layers
\* whose visibility and opacity change
HalfOpacity == 50

PointLight(name) ==
  [BaseConfig EXCEPT !.type = Some("light"), !.lightType = Some("point"), !.name = name]

LayerObjectConfigs ==
  {Box(Some("a"), 0),
   [Box(Some("a"), 0) EXCEPT !.material =
      Some([BaseMaterial EXCEPT !.type = Some("phong"), !.opacity = Some(HalfOpacity)])],
   [Box(Some("a"), 0) EXCEPT !.material =
      Some([BaseMaterial EXCEPT !.type = Some("phong"), !.opacity = Some(0)])],
   [PointLight(Some("b")) EXCEPT !.layer = Some("fx")]}

LayerUpdates ==
  {[NoUpdates EXCEPT !.enabled = Some(FALSE)],
   [NoUpdates EXCEPT !.layer = Some("fx")],
   [NoUpdates EXCEPT !.material = Some([BaseMaterial EXCEPT !.type = Some("basic")])]}

NextLayers ==
  \/ \E c \in LayerObjectConfigs : addObject(c)
  \/ replaceObject("a", [BaseConfig EXCEPT !.shape = Some("sphere"), !.layer = Some("ghost")])
  \/ \E id \in {"a", "b"}, u \in LayerUpdates : updateObject(id, u)
  \/ \E l \in LayerIds, v \in BOOLEAN : setLayerVisibility(l, v)
  \/ \E l \in LayerIds, o \in {HalfOpacity, FullOpacity} : updateLayerOpacity(l, o)
  \/ removeLayer("fx")

SpecLayers == Init /\ [][NextLayers]_vars

\* attachment: bodies of every motion type are attached to registered meshes
NextAttach ==
  \/ \E c \in PhysicsObjectConfigs : addObject(c)
  \/ removeObject("a")
  \/ setupJOLT
  \/ \E loaded, built \in BOOLEAN : setupJOLT_resume(loaded, built)
  \/ resetPhysics
  \/ \E id \in {"a", "b"}, pc \in PhysicsConfigs, engineThrows \in BOOLEAN :
       convertObjectToDynamic(id, pc, engineThrows)

SpecAttach == Init /\ [][NextAttach]_vars

\* descriptors: supported and unsupported configs are added and removed
NextDescriptors ==
  \/ \E c \in RegistryConfigs \cup BadConfigs : addObject(c)
  \/ \E id \in RegistryIds : removeObject(id)
  \/ \E l \in LayerIds : setLayerVisibility(l, FALSE)

SpecDescriptors == Init /\ [][NextDescriptors]_vars

\* rotation: meshes and groups are added, replaced and updated with euler
\* angles (degrees), quaternions and radians
Group(name) == [BaseConfig EXCEPT !.type = Some("group"), !.name = name]
Quaternion(v) == [length |-> 4, v |-> v]
Radians(v) == [length |-> 3, v |-> v]

RotationConfigs ==
  {[Box(Some("a"), 0) EXCEPT !.euler = Some(90000)],
   [Box(Some("a"), 0) EXCEPT !.rot = Some(Radians(1000))],
   [Box(Some("a"), 0) EXCEPT !.euler = Some(90000), !.rot = Some(Quaternion(500))],
   [Group(Some("g")) EXCEPT !.euler = Some(45000)],
   [Group(Some("g")) EXCEPT !.rot = Some(Quaternion(250))]}

RotationUpdates ==
  {[NoUpdates EXCEPT !.euler = Some(180000)],
   [NoUpdates EXCEPT !.rot = Some(Radians(2000))],
   [NoUpdates EXCEPT !.rot = Some(Quaternion(750))],
   [NoUpdates EXCEPT !.pos = Some(1)]}

NextRotation ==
  \/ \E c \in RotationConfigs : addObject(c)
  \/ \E id \in {"a", "g"}, c \in RotationConfigs : replaceObject(id, c)
  \/ \E id \in {"a", "g"}, u \in RotationUpdates : updateObject(id, u)
  \/ \E id \in {"a", "g"} : removeObject(id)

SpecRotation == Init /\ [][NextRotation]_vars

\* teardown: objects with and without an authored physics block are attached,
\* simulated and reset
TeardownConfigs ==
  {Box(Some("a"), 0),
   [Box(Some("b"), 1) EXCEPT
      !.physics = Some([BasePhysics EXCEPT !.motionType = Some("static")])]}

NextTeardown ==
  \/ \E c \in TeardownConfigs : addObject(c)
  \/ setupJOLT
  \/ \E loaded, built \in BOOLEAN : setupJOLT_resume(loaded, built)
  \/ \E id \in {"a", "b"} : convertObjectToDynamic(id, BasePhysics, FALSE)
  \/ startPhysics
  \/ resetPhysics

SpecTeardown == Init /\ [][NextTeardown]_vars

\* batches: lists of existing and missing ids are converted together
BatchIds == {<<"a", "zz">>, <<"zz", "a">>, <<"a", "b">>, <<"b">>}

NextBatch ==
  \/ \E c \in PhysicsObjectConfigs \cup {Group(Some("b"))} : addObject(c)
  \/ removeObject("a")
  \/ setupJOLT
  \/ \E loaded, built \in BOOLEAN : setupJOLT_resume(loaded, built)
  \/ resetPhysics
  \/ \E ids \in BatchIds, engineThrows \in BOOLEAN :
       batchConvertToPhysics(ids, BasePhysics, engineThrows)

SpecBatch == Init /\ [][NextBatch]_vars

\* radial gravity: a static attractor sphere and a dynamic box under radial
\* gravity
Planet ==
  [BaseConfig EXCEPT
     !.name = Some("p"), !.shape = Some("sphere"), !.pos = Some(1),
     !.physics = Some([BasePhysics EXCEPT !.motionType = Some("static"),
                                          !.gravityStrength = Some(DefaultGravityStrength)])]

NextRadial ==
  \/ \E c \in {Planet, Box(Some("a"), 0), Box(Some("a"), 1)} : addObject(c)
  \/ setGravityConfig([BaseGravity EXCEPT !.type = Some("radial")])
  \/ setupJOLT
  \/ setupJOLT_resume(TRUE, TRUE)
  \/ convertObjectToDynamic("a", BasePhysics, FALSE)
  \/ startPhysics
  \/ \E elapsed \in ElapsedTimes, p \in Positions : animate(elapsed, [b \in BodyIds |-> p])

SpecRadial == Init /\ [][NextRadial]_vars

\* export: meshes, groups and lights are added, updated, attached and moved
\* by the simulation
ExportConfigs ==
  {[Box(Some("a"), 0) EXCEPT !.euler = Some(90000)],
   [Group(Some("g")) EXCEPT !.pos = Some(1)],
   [PointLight(Some("b")) EXCEPT !.pos = Some(1)]}

ExportUpdates ==
  {[NoUpdates EXCEPT !.pos = Some(1)],
   [NoUpdates EXCEPT !.scale = Some(2)],
   [NoUpdates EXCEPT !.shape = Some("blob")]}

NextExport ==
  \/ \E c \in ExportConfigs : addObject(c)
  \/ \E id \in {"a", "g", "b"}, u \in ExportUpdates : updateObject(id, u)
  \/ setupJOLT
  \/ setupJOLT_resume(TRUE, TRUE)
  \/ convertObjectToDynamic("a", BasePhysics, FALSE)
  \/ startPhysics
  \/ \E p \in Positions : animate(10000, [b \in BodyIds |-> p])

SpecExport == Init /\ [][NextExport]_vars

\* forces: dynamic and static bodies are simulated under radial gravity
NextForce ==
  \/ \E c \in {Box(Some("a"), 0), Box(Some("a"), 1)} : addObject(c)
  \/ setGravityConfig([BaseGravity EXCEPT !.type = Some("radial")])
  \/ setupJOLT
  \/ setupJOLT_resume(TRUE, TRUE)
  \/ convertObjectToDynamic("a", BasePhysics, FALSE)
  \/ convertMainLayerToStaticBodies
  \/ startPhysics
  \/ \E p \in {0, 1} : animate(10000, [b \in BodyIds |-> p])

SpecForce == Init /\ [][NextForce]_vars

\* frames: both frame loops, on every kind of instance
NextFrame ==
  \/ addObject(Box(Some("a"), 1))
  \/ setGravityConfig([BaseGravity EXCEPT !.type = Some("radial")])
  \/ setupJOLT
  \/ setupJOLT_resume(TRUE, TRUE)
  \/ convertObjectToDynamic("a", BasePhysics, FALSE)
  \/ startPhysics
  \/ \E elapsed \in ElapsedTimes, p \in Positions : animate(elapsed, [b \in BodyIds |-> p])
  \/ \E elapsed \in ElapsedTimes, p \in Positions : renderSync(elapsed, [b \in BodyIds |-> p])

SpecFrame == InitAny /\ [][NextFrame]_vars

\* the shape scaler on descriptors of every scalable type
ScalableTypes == {"box", "sphere", "plane", "cylinder", "cone", "torus"}
DimensionValues == {None, Some(0), Some(5), Some(20)}
UnitScale == [x |-> 1, y |-> 1, z |-> 1]
Scales ==
  {UnitScale, [x |-> 2, y |-> 1, z |-> 3], [x |-> 3, y |-> 2, z |-> 1],
   [x |-> 1, y |-> 3, z |-> 2]}

ShapeDescriptors ==
  {[BaseShape EXCEPT !.type = Some(type), !.width = d, !.height = e, !.depth = d,
                     !.radius = d, !.radiusTop = d, !.radiusBottom = e, !.tube = e] :
     type \in ScalableTypes \cup {"ring"}, d \in DimensionValues, e \in DimensionValues}

NextScaler ==
  \/ \E shape \in ShapeDescriptors, scale \in Scales : scaleShape(Some(shape), scale)
  \/ \E scale \in Scales : scaleShape(None, scale)

SpecScaler == Init /\ [][NextScaler]_vars

\* bulk conversion of a registry with enabled and disabled meshes, a mesh on
\* another layer and a light
BulkConfigs ==
  {Box(Some("a"), 0),
   [Box(Some("a"), 1) EXCEPT !.enabled = Some(FALSE)],
   [Box(Some("b"), 1) EXCEPT !.layer = Some("fx")],
   PointLight(Some("b"))}

NextBulk ==
  \/ \E c \in BulkConfigs : addObject(c)
  \/ \E id \in {"a", "b"} : removeObject(id)
  \/ setupJOLT
  \/ setupJOLT_resume(TRUE, TRUE)
  \/ convertMainLayerToStaticBodies

SpecBulk == Init /\ [][NextBulk]_vars

\* the camera of every kind of instance
CameraConfigs ==
  {[BaseCameraConfig EXCEPT !.position = Some(2)],
   [BaseCameraConfig EXCEPT !.fov = Some(60), !.near = Some(2), !.far = Some(500)],
   [BaseCameraConfig EXCEPT !.orbitTarget = Some(1)],
   [BaseCameraConfig EXCEPT !.lookAt = Some(1), !.orbitTarget = Some(1)],
   [BaseCameraConfig EXCEPT !.lookAt = Some(3)],
   [BaseCameraConfig EXCEPT !.orbitEnabled = Some(FALSE)],
   [BaseCameraConfig EXCEPT !.orbitEnabled = Some(TRUE)],
   [BaseCameraConfig EXCEPT !.locked = Some(TRUE)],
   [BaseCameraConfig EXCEPT !.locked = Some(FALSE)]}

NextCamera ==
  \/ \E config \in CameraConfigs : setCameraConfig(config)
  \/ getCameraConfig
  \/ \E locked \in BOOLEAN : setCameraLocked(locked)

SpecCamera == InitAny /\ [][NextCamera]_vars

\* the camera of a browser instance with orbit controls, set without lookAt
\* and never locked
NextCameraRig ==
  \/ \E config \in {c \in CameraConfigs : ~IsSome(c.lookAt) /\ ~IsSome(c.locked)} :
       setCameraConfig(config)
  \/ getCameraConfig

SpecCameraRig == Init /\ [][NextCameraRig]_vars

\* batches of descriptors added to a layer, some of them unsupported
LayerBatches ==
  {<<>>,
   <<Box(Some("a"), 0)>>,
   <<Box(Some("a"), 0), [Box(Some("b"), 1) EXCEPT !.layer = Some("main")]>>,
   <<[Box(Some("a"), 0) EXCEPT !.shape = Some("blob")], Box(Some("b"), 1)>>}

NextLayerBatch ==
  \/ \E l \in LayerIds, configs \in LayerBatches : addObjectsToLayer(l, configs)
  \/ \E id \in {"a", "b"} : removeObject(id)
  \/ \E id \in {"a", "b"} : updateObject(id, [NoUpdates EXCEPT !.pos = Some(1)])
  \/ \E l \in LayerIds : removeLayer(l)

SpecLayerBatch == Init /\ [][NextLayerBatch]_vars

\* scenes read from text: malformed text, a value that is no array, arrays
ImportTexts ==
  {MalformedJSON, NotAnArray,
   JSONArray(<<Box(Some("a"), 0)>>),
   JSONArray(<<SceneRadial, [Box(Some("b"), 1) EXCEPT !.layer = Some("fx"),
                                                      !.physics = Some(BasePhysics)]>>)}

NextImport ==
  \/ \E json \in ImportTexts : interpretJSON(json)
  \/ \E id \in {"a", "b"} : removeObject(id)
  \/ \E l \in LayerIds : updateLayerOpacity(l, HalfOpacity)
  \/ setupJOLT
  \/ setupJOLT_resume(TRUE, TRUE)

SpecImport == Init /\ [][NextImport]_vars

\* selection: objects are selected, changed and removed
NextSelect ==
  \/ \E c \in {Box(Some("a"), 0), Box(Some("b"), 1), PointLight(Some("b"))} : addObject(c)
  \/ \E id \in {"a", "b"} : selectObject(id)
  \/ \E id \in {"a", "b"} : updateObject(id, [NoUpdates EXCEPT !.pos = Some(1)])
  \/ \E id \in {"a", "b"} : findIndex(objects, id) > 0 /\ removeObject(id)

SpecSelect == Init /\ [][NextSelect]_vars

\* simulation runs over named objects: started, started again, ticked, stopped
NextRun ==
  \/ \E c \in {Box(Some("a"), 0), Group(Some("g"))} : addObject(c)
  \/ setupJOLT
  \/ setupJOLT_resume(TRUE, TRUE)
  \/ convertObjectToDynamic("a", BasePhysics, FALSE)
  \/ startPhysics
  \/ stopPhysics(FALSE)
  \/ \E p \in Positions : animate(10000, [b \in BodyIds |-> p])

SpecRun == Init /\ [][NextRun]_vars

\* updates of a mesh and of a light: transforms, layer, shape, material
BasicMaterial == [BaseMaterial EXCEPT !.type = Some("basic"), !.opacity = Some(HalfOpacity)]

TransformUpdates ==
  {[NoUpdates EXCEPT !.pos = Some(1)],
   [NoUpdates EXCEPT !.euler = Some(HalfTurn)],
   [NoUpdates EXCEPT !.rot = Some(Radians(MilliPi))],
   [NoUpdates EXCEPT !.scale = Some(2)]}

ResourceUpdates ==
  {[NoUpdates EXCEPT !.shape = Some("sphere")],
   [NoUpdates EXCEPT !.shape = Some("blob")],
   [NoUpdates EXCEPT !.material = Some(BasicMaterial)],
   [NoUpdates EXCEPT !.material = Some([BaseMaterial EXCEPT !.type = Some("glow")])],
   [NoUpdates EXCEPT !.shape = Some("cone"), !.material = Some(BasicMaterial),
                     !.pos = Some(1)]}

\* the mesh takes every update, the light the two resource updates
UpdateCalls ==
  ({"a"} \X (TransformUpdates \cup ResourceUpdates))
    \cup ({"b"} \X {[NoUpdates EXCEPT !.shape = Some("sphere")],
                    [NoUpdates EXCEPT !.material = Some(BasicMaterial)]})

NextUpdate ==
  \/ \E c \in {Box(Some("a"), 0), PointLight(Some("b"))} : addObject(c)
  \/ \E call \in UpdateCalls : updateObject(call[1], call[2])

SpecUpdate == Init /\ [][NextUpdate]_vars

\* the registry and the scene under every call that adds or removes objects
NextBijection ==
  \/ \E c \in {Box(Some("a"), 0), Box(None, 1), PointLight(Some("a")),
               [BaseConfig EXCEPT !.shape = Some("blob")]} : addObject(c)
  \/ \E id \in RegistryIds, c \in ReplaceConfigs : replaceObject(id, c)
  \/ \E id \in RegistryIds : updateObject(id, [NoUpdates EXCEPT !.shape = Some("sphere")])
  \/ \E id \in RegistryIds \cup {"0"} : removeObject(id)
  \/ \E l \in LayerIds : removeLayer(l)
  \/ setupJOLT
  \/ setupJOLT_resume(TRUE, TRUE)
  \/ dropTestBall(1)

SpecBijection == Init /\ [][NextBijection]_vars

\* physics set-up: calls of setupJOLT and initializeScenePhysics that overlap,
\* floors and bodies made in between
NextWorld ==
  \/ addObject([Box(Some("a"), 0) EXCEPT !.physics = Some(BasePhysics)])
  \/ setupJOLT
  \/ setupJOLT_again
  \/ \E loaded, built \in BOOLEAN : setupJOLT_resume(loaded, built)
  \/ initializeScenePhysics
  \/ \E loaded, built \in BOOLEAN : initializeScenePhysics_resume(loaded, built)
  \/ createFloor
  \/ convertObjectToDynamic("a", StaticBulkPhysics, FALSE)

SpecWorld == Init /\ [][NextWorld]_vars

\* meshes of every shape type the attachment paths tell apart, and of one
\* they do not, at three scales
CollisionTypes == {"box", "sphere", "plane", "cylinder", "cone", "torus", "capsule", "ring"}

CollisionDescriptors ==
  {[BaseShape EXCEPT !.type = Some(type), !.width = d, !.height = e, !.depth = d,
                     !.radius = d, !.radiusTop = d, !.radiusBottom = e, !.tube = e] :
     type \in CollisionTypes, d \in {None, Some(5)}, e \in {None, Some(5), Some(20)}}

CollisionScales == {UnitScale, [x |-> 2, y |-> 2, z |-> 2], [x |-> 2, y |-> 1, z |-> 3]}

NextCollision ==
  \E shape \in CollisionDescriptors, scale \in CollisionScales : collisionShapes(shape, scale)

SpecCollision == Init /\ [][NextCollision]_vars

\* ------------------------------------------------------- registry properties
\* handle numbers S after the handle h has been unlinked and freed: the
\* handles numbered after h move down by one
Renumbered(S, h) == {IF k > h THEN k - 1 ELSE k : k \in S \ {h}}

\* C1: replaceObject(id, newConfig) is atomic on failure: when the entry for
\* id exists and the replacement cannot be constructed, the call returns false
\* and the registry still holds the original entry at the same position with
\* its config, and the original handle is still in the scene, not disposed.
C1_ReplaceFailureKeepsOriginal ==
  [][(/\ last'.op = "replaceObject"
      /\ last'.ret = "false"
      /\ findIndex(objects, last'.id) > 0)
     => LET i == findIndex(objects, last'.id)
            h == objects[i].threeObj
        IN /\ objects' = objects
           /\ h \in scene'
           /\ three'[h] = three[h]
           /\ ~three'[h].geoDisposed /\ ~three'[h].matDisposed]_vars

\* C8: addObject(config) returning id followed immediately by
\* removeObject(id) leaves the registry with the entries it had before the
\* add, and the scene without the handle that add created.
C8_AddThenRemoveIsInverse ==
  [][(/\ last.op = "addObject" /\ last.ret /= Null
      /\ last'.op = "removeObject" /\ last'.id = last.ret)
     => /\ objects' = SubSeq(objects, 1, Len(objects) - 1)
        /\ scene' = Renumbered(scene, objects[Len(objects)].threeObj)]_vars

\* C9: every object stored by a successful addObject has a defined, non-null
\* id (the supplied name or a generated fallback); addObject returns it and
\* getObjectById(returned id) yields the object just added.
C9_AddedObjectHasId ==
  (last.op = "addObject" /\ last.ret /= Null)
    => /\ last.ret /= Undefined
       /\ objects[Len(objects)].id = last.ret
       /\ getObjectById(State, last.ret) = Len(objects)

\* C10: each object in the registry names one layer in its config and that
\* layer is present in the layer table.
C10_ObjectLayerExists ==
  \A i \in 1 .. Len(objects) :
    /\ IsSome(objects[i].config.layer)
    /\ objects[i].config.layer[1] \in DOMAIN layers

\* -------------------------------------------------------- physics properties
\* the handles of the objects in the registry
RegistryHandles == {objects[i].threeObj : i \in 1 .. Len(objects)}

\* C2: every body that is added to the physics world is referenced by the
\* render handle of an object in the registry, the floor body excepted.
C2_BodyHasLiveOwner ==
  \A b \in LiveBodies(State) :
    \E h \in RegistryHandles \cup floorMeshes : three[h].body = b

\* C3: dynamicObjects contains exactly the render handles of the registry
\* objects whose body has motion type Dynamic, each at most once.
C3_DynamicSetExact ==
  /\ \A i, j \in 1 .. Len(dynamicObjects) :
       dynamicObjects[i] = dynamicObjects[j] => i = j
  /\ SeqRange(dynamicObjects) =
       {h \in RegistryHandles :
          three[h].body /= 0 /\ bodies[three[h].body].motionType = "dynamic"}

\* the operations that need the physics world
PhysicsOps ==
  {"convertObjectToDynamic", "batchConvertToPhysics", "startPhysics", "stopPhysics",
   "createFloor", "convertMainLayerToStaticBodies", "dropTestBall"}

\* C7: when the physics world is not initialized, each physics operation
\* reports failure or returns nothing, and leaves the registry, the handles'
\* physics metadata, dynamicObjects, savedTransforms, the running flag, the
\* bodies, the scene and the pending set-ups unchanged.
C7_FailFastWhenNotInitialized ==
  [][(~Initialized /\ last'.op \in PhysicsOps)
     => /\ last'.ret \in {"false", Undefined}
        /\ UNCHANGED <<objects, three, scene, floorMeshes, bodies, dynamicObjects,
                       savedTransforms, isPhysicsRunning, pending, jolt, jInterface>>]_vars

\* C7 happens: the module is loaded but no world is live, and converting an
\* existing mesh has just been refused
C7_Witness ==
  /\ jolt /\ jInterface = 0
  /\ last.op = "convertObjectToDynamic" /\ last.ret = "false"
  /\ findIndex(objects, last.id) > 0
  /\ three[objects[findIndex(objects, last.id)].threeObj].kind = "mesh"

\* ----------------------------------------------------- simulation properties
\* C4: startPhysics followed by stopPhysics with no tick in between leaves
\* every mesh and group of the registry at the position, rotation and scale it
\* had, and every body such an object has at that position and rotation, at
\* rest.
C4_StartStopRestores ==
  [][(/\ last.op = "startPhysics" /\ last.ret = "true"
      /\ last'.op = "stopPhysics" /\ last'.ret = "true")
     => \A h \in RegistryHandles :
          IsMeshOrGroup(three[h])
            => /\ three'[h].position = three[h].position
               /\ three'[h].rotation = three[h].rotation
               /\ three'[h].scale = three[h].scale
               /\ three'[h].body /= 0
                    => /\ bodies'[three'[h].body].position = three[h].position
                       /\ bodies'[three'[h].body].rotation = three[h].rotation
                       /\ ~bodies'[three'[h].body].moving]_vars

\* C5: immediately after every successful stopPhysics the savedTransforms
\* store is empty.
C5_StopClearsSnapshots ==
  (last.op = "stopPhysics" /\ last.ret = "true") => savedTransforms = <<>>

\* C6: whenever the physics world is initialized and the gravity model is
\* radial, the engine's native gravity vector is zero.
C6_RadialZeroesNativeGravity ==
  (Initialized /\ gravityType = "radial") => nativeGravity = Some(0)

\* -------------------------------------------------------- layer properties
\* the operations that must return normally
NonFatalOps ==
  {"addObject", "replaceObject", "updateObject", "removeObject", "setLayerVisibility",
   "updateLayerOpacity", "removeLayer", "convertObjectToDynamic",
   "batchConvertToPhysics", "resetPhysics", "startPhysics", "stopPhysics"}

\* C11: no registry or physics operation raises an exception to its caller.
C11_NoOperationThrows ==
  last.op \in NonFatalOps => last.ret /= "throw"

\* ---------------------------------------------------- attachment properties
\* C12: a body attached by convertObjectToDynamic is in the non-moving layer
\* when its motion type is static or kinematic and in the moving layer when it
\* is dynamic or omitted, and a statically attached object is not in the
\* dynamic set.
C12_MotionTypeSelectsLayer ==
  \A h \in Handles :
    (three[h].body /= 0 /\ IsSome(three[h].physicsConfig)) =>
      LET motionType == MotionTypeOf(three[h].physicsConfig[1]) IN
      /\ bodies[three[h].body].layer =
           (IF motionType \in {"static", "kinematic"}
            THEN LAYER_NON_MOVING ELSE LAYER_MOVING)
      /\ motionType = "static" => indexOf(dynamicObjects, h) = 0

\* ----------------------------------------------------- descriptor properties
\* C13: addObject of a config with an unknown object type, light type, helper
\* type, shape type or material type returns null and leaves the object list
\* and the scene graph exactly as they were.
C13_UnsupportedAddAbandoned ==
  [][\A c \in BadConfigs :
       addObject(c) => /\ last'.ret = Null
                       /\ objects' = objects
                       /\ scene' = scene
                       /\ three' = three]_vars

C13_Witness ==
  /\ last.op = "addObject"
  /\ last.ret = Null
  /\ Len(objects) = 1
  /\ scene /= {}

\* C14: the render handle of every registry object, whatever its kind, is
\* visible exactly when its config.enabled is not false and its layer is
\* visible.
C14_VisibleIffEnabledAndLayerVisible ==
  \A i \in 1..Len(objects) :
    LET layer == LayerOf(objects[i].config) IN
    layer \in DOMAIN layers =>
      (three[objects[i].threeObj].visible <=>
         (objects[i].config.enabled /= Some(FALSE) /\ layers[layer].visible))

\* C15: updateLayerOpacity(L, o) gives every mesh of layer L the material
\* opacity b * o, b being the opacity its material config was authored with
\* (1 when none is given), whatever the layer's previous opacities were; the
\* material is transparent when o < 1, and opaque again when o = 1 and b = 1.
C15_LayerOpacityFromBase ==
  [][last'.op = "updateLayerOpacity" =>
       \A i \in 1..Len(objects') :
         LET config == objects'[i].config
             mesh == three'[objects'[i].threeObj]
             o == layers'[last'.id].opacity
             b == MeshMaterial(config)[1].opacity
         IN (LayerOf(config) = last'.id /\ mesh.kind = "mesh") =>
              /\ mesh.opacity = ScaleOpacity(b, o)
              /\ o < FullOpacity => mesh.transparent
              /\ (o = FullOpacity /\ b = FullOpacity) => ~mesh.transparent]_vars

\* the material config of a mesh is opaque: opacity 1 and not authored
\* transparent
OpaqueBase(config) ==
  /\ MeshMaterial(config)[1].opacity = FullOpacity
  /\ ~MeshMaterial(config)[1].transparent

\* C16: every mesh whose layer has opacity below 1 is transparent, and every
\* mesh whose layer has opacity 1 and whose material config is opaque is not
\* transparent.
C16_NoResidualTransparency ==
  \A i \in 1..Len(objects) :
    LET config == objects[i].config
        mesh == three[objects[i].threeObj]
        layer == LayerOf(config)
    IN (mesh.kind = "mesh" /\ layer \in DOMAIN layers) =>
         /\ layers[layer].opacity < FullOpacity => mesh.transparent
         /\ (layers[layer].opacity = FullOpacity /\ OpaqueBase(config)) => ~mesh.transparent

\* ------------------------------------------------------ rotation properties
\* C17: the rotation of every mesh and group follows from its resulting config
\* by one precedence, whichever of addObject, replaceObject and updateObject
\* produced it: euler (degrees) when the config has euler, otherwise a
\* 4-component rot as a quaternion, otherwise a 3-component rot as radians.
C17_RotationPrecedence ==
  \A i \in 1..Len(objects) :
    LET config == objects[i].config
        obj == three[objects[i].threeObj]
    IN (obj.kind \in {"mesh", "group"} /\ (IsSome(config.euler) \/ IsSome(config.rot))) =>
         obj.rotation =
           (IF IsSome(config.euler) THEN eulerRad(config.euler[1])
            ELSE IF config.rot[1].length = 4 THEN 2 * config.rot[1].v
            ELSE config.rot[1].v)

\* ------------------------------------------------------- teardown properties
\* C18: resetPhysics on an initialized engine leaves no registry object with a
\* body reference, physics metadata or a physics config, empties the dynamic
\* set and the snapshot store, clears the running flag and makes
\* isPhysicsInitialized() false while the loaded module is kept, whichever
\* body removals raise an engine error.
C18_ResetDrainsPhysics ==
  [][(Initialized /\ last'.op = "resetPhysics") =>
       /\ \A i \in 1..Len(objects') :
            LET obj == three'[objects'[i].threeObj] IN
            /\ obj.body = 0
            /\ obj.isStatic = None /\ obj.isDynamic = None /\ obj.isKinematic = None
            /\ obj.physicsConfig = None
            /\ objects'[i].config.physics = None
       /\ dynamicObjects' = <<>>
       /\ savedTransforms' = <<>>
       /\ ~isPhysicsRunning'
       /\ ~(jolt' /\ jInterface' /= 0)
       /\ jolt']_vars

\* ---------------------------------------------------------- batch properties
\* the results "<successCount>/<failedCount>" that account for n ids
Tallies(n) == {ToString(k) \o "/" \o ToString(n - k) : k \in 0..n}

\* the ids of the list that name a registered mesh, counted with repetition
ValidCount(ids) ==
  Cardinality({k \in 1..Len(ids) :
                 /\ findIndex(objects, ids[k]) > 0
                 /\ three[objects[findIndex(objects, ids[k])].threeObj].kind = "mesh"})

C20_ForcePointsToAttractor ==
  [][(/\ last'.op = "animate"
      /\ jInterface /= 0 /\ isPhysicsRunning /\ gravityType = "radial"
      /\ Len(attractors) = 1) =>
       \A i \in 1..Len(objects) :
         LET h == objects[i].threeObj
             b == three[h].body
         IN (b /= 0 /\ indexOf(dynamicObjects, h) > 0 /\ bodies[b].motionType = "dynamic") =>
              bodies'[three'[objects'[i].threeObj].body].force =
                Sign(attractors[1].position - bodies[b].position)]_vars

\* ---------------------------------------------------------- export properties
\* C21: re-adding every entry of exportScene() into a new instance gives as
\* many objects as the registry has, each with the position, euler rotation
\* and scale its live handle had, and with its physics config when a body was
\* attached.
C21_ExportRoundTrip ==
  LET fresh == do_interpretJSON(NewInstance, JSONArray(exportScene(State))) IN
  /\ Len(fresh.objects) = Len(objects)
  /\ \A i \in 1..Len(objects) :
       i <= Len(fresh.objects) =>
         LET old == three[objects[i].threeObj]
             new == fresh.three[fresh.objects[i].threeObj]
         IN /\ new.position = old.position
            /\ eulerDeg(new.rotation) = eulerDeg(old.rotation)
            /\ new.scale = old.scale
            /\ (old.body /= 0 /\ IsSome(objects[i].config.physics)) =>
                 fresh.objects[i].config.physics = objects[i].config.physics

\* ----------------------------------------------------------- force properties
Abs(x) == IF x < 0 THEN 0 - x ELSE x

Steps == SelectSeq(frame, LAMBDA c : c.call = "Step")

\* C23: the delta a frame passes to the engine's Step is the elapsed time
\* clamped to 1/30 s, with 2 sub-steps when the clamped delta exceeds 1/55 s
\* and 1 otherwise; frames of 0.01 s and of 0.05 s step once and twice.
C23_StepClamping ==
  [][\A elapsed \in ElapsedTimes : \A p \in Positions :
       (\/ animate(elapsed, [b \in BodyIds |-> p])
        \/ renderSync(elapsed, [b \in BodyIds |-> p])) =>
         \A k \in 1..Len(Steps') :
           /\ Steps'[k].deltaTime = (IF elapsed < MaxDeltaTime THEN elapsed ELSE MaxDeltaTime)
           /\ Steps'[k].numSteps = (IF Steps'[k].deltaTime > SubStepThreshold THEN 2 ELSE 1)
           /\ elapsed = 10000 => Steps'[k].numSteps = 1
           /\ elapsed = 50000 => Steps'[k].numSteps = 2]_vars

C23_Witness ==
  /\ last.op = "renderSync"
  /\ Len(Steps) = 1
  /\ Steps[1].deltaTime = MaxDeltaTime
  /\ Steps[1].numSteps = 2

\* ---------------------------------------------------------- scaler properties
\* C24: for a box, sphere, plane, cylinder, cone or torus the scaler at scale
\* (1,1,1) returns the dimensions the shape has, and at any scale the box
\* extents scaled per axis, the sphere radius by max(x,y,z), the plane width
\* by x and height by z, cylinder and cone radii by max(x,z) and height by y,
\* the torus radius by max(x,z) and its tube by max(x,y,z).
C24_ShapeScaler ==
  (last.op = "getScaledShapeDimensions" /\ IsSome(last.id.shape)
     /\ last.id.shape[1].type[1] \in ScalableTypes) =>
    LET own == GeometryDimensions(last.id.shape[1])
        type == last.id.shape[1].type[1]
        x == last.id.scale.x
        y == last.id.scale.y
        z == last.id.scale.z
        xz == IF x > z THEN x ELSE z
        xyz == IF xz > y THEN xz ELSE y
        by(dim, k) == IF IsSome(dim) THEN Some(dim[1] * k) ELSE None
    IN /\ last.id.scale = UnitScale =>
            \A dim \in DOMAIN own : IsSome(own[dim]) => last.ret[dim] = own[dim]
       /\ type = "box" =>
            /\ last.ret.width = by(own.width, x)
            /\ last.ret.height = by(own.height, y)
            /\ last.ret.depth = by(own.depth, z)
       /\ type = "sphere" => last.ret.radius = by(own.radius, xyz)
       /\ type = "plane" =>
            /\ last.ret.width = by(own.width, x)
            /\ last.ret.height = by(own.height, z)
       /\ type = "cylinder" =>
            /\ last.ret.radiusTop = by(own.radiusTop, xz)
            /\ last.ret.radiusBottom = by(own.radiusBottom, xz)
            /\ last.ret.height = by(own.height, y)
       /\ type = "cone" =>
            /\ last.ret.radius = by(own.radius, xz)
            /\ last.ret.height = by(own.height, y)
       /\ type = "torus" =>
            /\ last.ret.radius = by(own.radius, xz)
            /\ last.ret.tube = by(own.tube, xyz)

C24_Witness ==
  /\ last.op = "getScaledShapeDimensions"
  /\ IsSome(last.id.shape)
  /\ last.id.shape[1].type = Some("plane")
  /\ last.id.scale = [x |-> 2, y |-> 1, z |-> 3]
  /\ last.ret.height = Some(60)

\* ------------------------------------------------- bulk conversion properties
\* C25: convertMainLayerToStaticBodies gives every enabled mesh on layer main
\* a static body in the non-moving layer and the physics config {static, 0.2,
\* 0.0}, and gives no body and no physics config to a disabled mesh, to an
\* object that is not a mesh or to an object on another layer.
C25_BulkTargetsEnabledMainMeshes ==
  [][(last'.op = "convertMainLayerToStaticBodies" /\ Initialized) =>
       \A i \in 1..Len(objects) :
         LET h == objects[i].threeObj
             after == three'[objects'[i].threeObj]
         IN IF /\ three[h].kind = "mesh"
               /\ LayerOf(objects[i].config) = "main"
               /\ objects[i].config.enabled /= Some(FALSE)
            THEN /\ after.body /= 0
                 /\ bodies'[after.body].motionType = "static"
                 /\ bodies'[after.body].layer = LAYER_NON_MOVING
                 /\ objects'[i].config.physics = Some(StaticBulkPhysics)
            ELSE /\ objects'[i].config.physics = objects[i].config.physics
                 /\ (three[h].body = 0) = (after.body = 0)
                 /\ three[h].body /= 0 => bodies'[after.body] = bodies[three[h].body]]_vars

\* ------------------------------------------------------------ camera properties
\* C26: on a browser instance and on a server instance, getCameraConfig()
\* right after setCameraConfig(c) returns the value of every field c supplied.
C26_CameraRoundTrip ==
  [][(last.op = "setCameraConfig" /\ last'.op = "getCameraConfig") =>
       \A k \in DOMAIN last.id : IsSome(last.id[k]) => last'.ret[k] = last.id[k][1]]_(last.op)

\* ------------------------------------------------------- layer batch properties
\* the list addObjectsToLayer returned in the last call
ReturnedIds ==
  [k \in 1 .. (CHOOSE n \in 0 .. MaxObjects : ToString(n) = last.ret) |-> PlaceholderId]

\* C27: addObjectsToLayer returns one id for each config it added, the id the
\* object has in the registry, and none for a config whose add failed; every
\* object it added is in the requested layer.
C27_BatchAddReturnsIds ==
  [][last'.op = "addObjectsToLayer" =>
       LET stored == [k \in 1 .. (Len(objects') - Len(objects)) |->
                        objects'[Len(objects) + k]]
       IN /\ ReturnedIds' = [k \in DOMAIN stored |-> stored[k].id]
          /\ \A k \in DOMAIN stored : LayerOf(stored[k].config) = last'.id]_vars

\* ------------------------------------------------------------ import properties
\* C28: interpretJSON on text that is not valid JSON, or that is valid JSON but
\* no array, returns an empty list, does not throw, and leaves the registry,
\* the layer table and the scene as they were.
C28_MalformedInputIsNoError ==
  [][\A json \in {MalformedJSON, NotAnArray} :
       interpretJSON(json) =>
         /\ last'.ret = "0"
         /\ objects' = objects
         /\ layers' = layers
         /\ scene' = scene
         /\ three' = three]_vars

C28_Witness ==
  /\ last.op = "interpretJSON"
  /\ last.id = "value"
  /\ last.ret = "0"
  /\ Len(objects) > 0
  /\ "fx" \in DOMAIN layers

\* --------------------------------------------------------- selection properties
\* C29: when removeObject removes the object that carries the selection
\* highlight, the highlight is gone afterwards (selectedHelper is null and no
\* helper is left in the scene); when another object carries it, the highlight
\* stays on that object.
C29_RemoveClearsHighlight ==
  [][(last'.op = "removeObject" /\ findIndex(objects, last'.id) > 0) =>
       LET i == findIndex(objects, last'.id) IN
       /\ selectedHelper = Some(objects[i].threeObj) => selectedHelper' = None
       /\ \A j \in 1..Len(objects) :
            (j /= i /\ selectedHelper = Some(objects[j].threeObj)) =>
              selectedHelper' = Some(objects'[IF j > i THEN j - 1 ELSE j].threeObj)]_vars

C29_Witness ==
  /\ last.op = "removeObject"
  /\ IsSome(selectedHelper)
  /\ \E j \in 1..Len(objects) : selectedHelper = Some(objects[j].threeObj)

\* the place of a call in a tick: gravity application, physics step, transform
\* copy, render
TickRank(call) ==
  CASE call = "AddForce" -> 1 [] call = "Step" -> 2 [] call = "copy" -> 3 [] OTHER -> 4

\* C30: in every tick of animate and of renderSync the radial forces come
\* before the physics Step, the Step before the copy of body transforms into
\* the render handles, and rendering last.
C30_TickOrdering ==
  last.op \in {"animate", "renderSync"} =>
    \A i, j \in 1..Len(frame) :
      i < j => TickRank(frame[i].call) < TickRank(frame[j].call)

\* C31: a frame tick steps the engine, applies gravity forces, copies body
\* transforms into render handles and advances the simulation time only if the
\* physics world is initialized and the simulation is running; otherwise it
\* changes no object transform and no simulation time.
C31_SteppedOnlyWhileRunning ==
  [][(/\ last'.op \in {"animate", "renderSync"}
      /\ ~(jInterface /= 0 /\ isPhysicsRunning)) =>
       /\ \A k \in 1..Len(frame') : frame'[k].call \notin {"Step", "AddForce", "copy"}
       /\ time' = time
       /\ three' = three
       /\ bodies' = bodies]_vars

\* ------------------------------------------------------------- run properties
\* C32: a simulation run is reversed to its pre-simulation state: a start
\* issued while the simulation is running keeps the snapshot taken at the
\* first start, and stopPhysics puts every mesh and group of the snapshot that
\* is still in the registry back at the transform the snapshot holds.
C32_RunIsReversed ==
  [][/\ (last'.op = "startPhysics" /\ Initialized /\ isPhysicsRunning) =>
          \A k \in 1..Len(savedTransforms) :
            findIndex(objects, savedTransforms[k].id) > 0 =>
              \E j \in 1..Len(savedTransforms') : savedTransforms'[j] = savedTransforms[k]
     /\ (last'.op = "stopPhysics" /\ Initialized /\ isPhysicsRunning) =>
          \A k \in 1..Len(savedTransforms) :
            LET i == findIndex(objects', savedTransforms[k].id) IN
            i > 0 =>
              LET obj == three'[objects'[i].threeObj] IN
              /\ obj.position = savedTransforms[k].position
              /\ obj.rotation = savedTransforms[k].rotation
              /\ obj.scale = savedTransforms[k].scale]_vars

\* C33: at the end of every tick of a running simulation every handle of the
\* dynamic set that has a body is at the position and rotation its body has,
\* and the tick leaves every handle outside the dynamic set as it was.
C33_TransformPull ==
  [][(/\ last'.op \in {"animate", "renderSync"}
      /\ last'.ret /= "throw"
      /\ jInterface /= 0 /\ isPhysicsRunning) =>
       \A h \in Handles :
         IF h \in SeqRange(dynamicObjects')
         THEN three'[h].body /= 0 =>
                /\ three'[h].position = bodies'[three'[h].body].position
                /\ three'[h].rotation = bodies'[three'[h].body].rotation
         ELSE three'[h] = three[h]]_vars

\* ------------------------------------------------------------ update properties
\* the frame logs a call of this name
Called(log, name) == \E k \in 1..Len(log) : log[k].call = name

\* C34: updateObject touches only what the update names: without shape the
\* geometry stays the instance it was and without material the material does;
\* a supported shape given to a mesh replaces and disposes the geometry, a
\* supported material the material; ids and list positions never change.
C34_UpdateTouchesOnlyNamed ==
  [][\A call \in UpdateCalls :
       (updateObject(call[1], call[2]) /\ findIndex(objects, call[1]) > 0) =>
         LET id == call[1]
             updates == call[2]
             i == findIndex(objects, id)
             old == three[objects[i].threeObj]
             new == three'[objects'[i].threeObj]
         IN /\ [j \in 1..Len(objects') |-> objects'[j].id]
                 = [j \in 1..Len(objects) |-> objects[j].id]
            /\ objects'[i].threeObj = objects[i].threeObj
            /\ ~IsSome(updates.shape) =>
                 ~Called(frame', "geometry.dispose") /\ new.geometry = old.geometry
            /\ ~IsSome(updates.material) =>
                 /\ ~Called(frame', "material.dispose")
                 /\ new.material = old.material
            /\ (old.kind = "mesh" /\ createGeometry(updates.shape)) =>
                 Called(frame', "geometry.dispose") /\ new.geometry = updates.shape
            /\ (old.kind = "mesh" /\ IsSome(updates.material)
                  /\ IsSome(createMaterialFromObj(updates.material[1]))) =>
                 /\ Called(frame', "material.dispose")
                 /\ new.material = updates.material[1].type]_vars

C34_Witness ==
  /\ last.op = "updateObject"
  /\ frame = <<[call |-> "geometry.dispose", deltaTime |-> 0, numSteps |-> 0]>>
  /\ \E i \in 1..Len(objects) :
       /\ objects[i].id = last.id
       /\ three[objects[i].threeObj].geometry = Some("sphere")
       /\ three[objects[i].threeObj].material = Some("phong")

\* -------------------------------------------------------- layer removal properties
\* C35: removeLayer(L) of a layer in the table removes exactly the objects of
\* L: none of them is left, every object of another layer is still registered
\* with its handle in the scene, the returned count is the number removed,
\* and L leaves the layer table.
C35_RemoveLayerIsExact ==
  [][(last'.op = "removeLayer" /\ last'.id \in DOMAIN layers) =>
       /\ \A j \in 1..Len(objects') : LayerOf(objects'[j].config) /= last'.id
       /\ \A k \in 1..Len(objects) :
            LayerOf(objects[k].config) /= last'.id =>
              /\ objects[k].threeObj \in scene
                   => \E h \in scene' : three'[h] = three[objects[k].threeObj]
              /\ Cardinality({j \in 1..Len(objects') : objects'[j].config = objects[k].config})
                   = Cardinality({j \in 1..Len(objects) :
                                    /\ objects[j].config = objects[k].config})
       /\ last'.ret = ToString(Len(objects) - Len(objects'))
       /\ last'.id \notin DOMAIN layers']_vars

\* C36: registry and scene graph are in bijection: every registry entry has a
\* render handle of its own that is in the scene, and every handle in the
\* scene that is not a floor belongs to a registry entry.
C36_RegistrySceneBijection ==
  /\ \A k \in 1..Len(objects) :
       /\ objects[k].threeObj \in scene
       /\ \A j \in 1..Len(objects) : objects[j].threeObj = objects[k].threeObj => j = k
  /\ \A h \in scene \ floorMeshes :
       /\ three[h].kind \in {"mesh", "group", "light", "helper"}
       /\ \E k \in 1..Len(objects) : objects[k].threeObj = h

C36_Witness ==
  /\ last.op = "replaceObject" /\ last.ret = "false"
  /\ Len(objects) = 1
  /\ scene = {objects[1].threeObj}

\* ------------------------------------------------------------ set-up properties
\* C37: at most one physics world is live: a world is constructed only when
\* there is none, so the interface never changes from one world to another,
\* and every body in the engine belongs to the world the interface refers to.
C37_SingleWorld ==
  [][/\ jInterface /= 0 => jInterface' = jInterface
     /\ \A b \in BodyIds :
          (bodies'[b].motionType /= "free" /\ bodies'[b].added)
            => bodies'[b].world = jInterface']_vars

\* ------------------------------------------------------- replacement properties
\* C38: a successful replaceObject keeps identity and order: the registry has
\* the same length, the new entry has the id and the list index of the entry
\* it replaces, every other entry is unchanged and where it was, the old
\* handle (disposed by the call) is out of the scene and the new one is in it.
C38_ReplaceKeepsIdentityAndOrder ==
  [][(last'.op = "replaceObject" /\ last'.ret = "true") =>
       LET index == findIndex(objects, last'.id) IN
       /\ index > 0
       /\ Len(objects') = Len(objects)
       /\ objects'[index].id = objects[index].id
       /\ \A j \in 1..Len(objects) : j /= index =>
            /\ objects'[j].id = objects[j].id
            /\ objects'[j].config = objects[j].config
            /\ three'[objects'[j].threeObj] = three[objects[j].threeObj]
            /\ objects'[j].threeObj \in scene' <=> objects[j].threeObj \in scene
       /\ objects'[index].threeObj \in scene'
       /\ three'[objects'[index].threeObj].geometry = objects'[index].config.shape
       /\ \A h \in scene' : ~three'[h].geoDisposed
       /\ Cardinality(scene') = Cardinality(scene)]_vars

C38_Witness ==
  /\ last.op = "replaceObject" /\ last.ret = "true"
  /\ Len(objects) = 2
  /\ objects[1].id = last.id /\ objects[1].config.shape = Some("sphere")
  /\ objects[2].config.shape = Some("box")
  /\ scene = {1, 2}

\* C39: a failed rebuild in updateObject leaves the object unchanged: when the
\* update gives a mesh a shape or a material that cannot be built, the stored
\* config keeps the previous descriptor and the handle its previous geometry
\* or material.
C39_FailedRebuildLeavesObject ==
  [][\A call \in UpdateCalls :
       (updateObject(call[1], call[2]) /\ findIndex(objects, call[1]) > 0) =>
         LET updates == call[2]
             i == findIndex(objects, call[1])
             old == three[objects[i].threeObj]
             new == three'[objects'[i].threeObj]
         IN old.kind = "mesh" =>
              /\ (IsSome(updates.shape) /\ ~createGeometry(updates.shape)) =>
                   /\ objects'[i].config.shape = objects[i].config.shape
                   /\ new.geometry = old.geometry
              /\ (IsSome(updates.material)
                    /\ ~IsSome(createMaterialFromObj(updates.material[1]))) =>
                   /\ objects'[i].config.material = objects[i].config.material
                   /\ new.material = old.material]_vars

\* ------------------------------------------------------ collision shape properties
\* C40: both attachment paths derive the same collision shape for every mesh:
\* the shape convertMainLayerToStaticBodies builds equals the shape
\* convertObjectToDynamic builds for the same object at the same scale.
C40_SameCollisionShape ==
  last.op = "collisionShapes" => last.ret.bulk = last.ret.single

=============================================================================
